---------------------------- MODULE Spec2Model ----------------------------
(***************************************************************************)
(* Model of chia-inspect-core: the puzzle-layer recognition engine          *)
(* (recognize.rs) and the CLVM static feature extractor (inspect.rs).       *)
(*                                                                         *)
(* Option<T> is modelled as a sequence: None is <<>>, Some(x) is <<x>>.     *)
(* A Vec<T> is a sequence.  Confidence values are kept in tenths, so        *)
(* 0.5 / 0.8 / 1.0 are 5 / 8 / 10.                                          *)
(*                                                                         *)
(* The layer templates of chia_sdk_driver are an external library.  What    *)
(* the engine can observe of a puzzle is, for each template, whether        *)
(* parse_puzzle accepts it, the inner puzzle it exposes, and the puzzle's   *)
(* curried hash.  A puzzle tree is therefore a sequence of levels, outer    *)
(* first: level i records the set of templates that accept the puzzle at    *)
(* that nesting depth (mods), the set of templates whose parser fails on    *)
(* it with an error (fails) and its curried puzzle hash (h).  The inner     *)
(* puzzle of a level is the rest of the sequence; the empty sequence is a   *)
(* raw puzzle no template accepts.  A solution tree is a sequence whose     *)
(* head tells how parse_solution fares on it ("ok", "recover", "err") and   *)
(* whose tail is the inner solution it carries.                             *)
(***************************************************************************)
EXTENDS Integers, Sequences, FiniteSets, TLC

VARIABLES
    puzzle_reveal_bytes,    \* input: [ok |-> decodes?, tree |-> puzzle tree]
    solution_bytes,         \* input: [ok |-> decodes?, tree |-> solution tree]
    pc,                     \* position in recognize_puzzle_and_solution
    stop,                   \* which exit of the peeling loop was taken
    iter,                   \* number of loop iterations started
    current_puzzle,
    current_solution,       \* Option<NodePtr>
    current_hash,           \* Option: hash taken before descending
    solution_decode_error,  \* Option<String>
    wrappers,
    candidates,
    solution_layers,
    result,                 \* Option<PuzzleRecognition>
    clvm_bytes,             \* input of analyze_clvm_bytes: [ok, tree]
    fpc,                    \* position of the feature extraction
    features,               \* Option<StaticFeatures>
    source,                 \* inspect_bundle: InputSource
    spend_bundle,           \* inspect_bundle: SpendBundle
    notes,                  \* inspect_bundle: Vec<String>
    eval,                   \* what get_conditions_from_spendbundle returns
    bpc,                    \* position of inspect_bundle
    output,                 \* Option<Result<InspectionOutput>>
    blob_json,              \* input of load_mempool_blob_input
    lpc,                    \* position of load_mempool_blob_input
    loaded,                 \* Option<Result<(InputSource, SpendBundle, Vec<String>)>>
    helper,                 \* the helper function that is called on its own
    argument,               \* its argument
    hpc,                    \* position of the call
    returned                \* Option of what it returned

vars == << puzzle_reveal_bytes, solution_bytes, pc, stop, iter, current_puzzle,
           current_solution, current_hash, solution_decode_error, wrappers,
           candidates, solution_layers, result, clvm_bytes, fpc, features,
           source, spend_bundle, notes, eval, bpc, output,
           blob_json, lpc, loaded, helper, argument, hpc, returned >>

engineVars == << puzzle_reveal_bytes, solution_bytes, pc, stop, iter,
                 current_puzzle, current_solution, current_hash,
                 solution_decode_error, wrappers, candidates, solution_layers,
                 result >>

featVars == << clvm_bytes, fpc, features >>

bundleVars == << source, spend_bundle, notes, eval, bpc, output >>

loadVars == << blob_json, lpc, loaded >>

helperVars == << helper, argument, hpc, returned >>

None == << >>

Some(x) == << x >>

(***************************************************************************)
(* Program constants                                                        *)
(***************************************************************************)
MAX_LAYER_DEPTH_off_by_one == 32 + 1

MAX_LAYER_DEPTH == 32

\* The fixed catalog, in the order collect_matches tries the templates.
Catalog ==
    << "cat_layer", "singleton_layer", "did_layer", "nft_state_layer",
       "nft_ownership_layer", "royalty_transfer_layer",
       "augmented_condition_layer", "bulletin_layer", "option_contract_layer",
       "revocation_layer", "p2_singleton_layer", "p2_curried_layer",
       "p2_one_of_many_layer", "p2_delegated_conditions_layer",
       "settlement_layer", "stream_layer", "standard_layer" >>

Templates == { Catalog[i] : i \in DOMAIN Catalog }

\* Templates whose LayerMatch carries next_puzzle: Some(layer.inner_puzzle).
InnerTemplates ==
    { "cat_layer", "singleton_layer", "did_layer", "nft_state_layer",
      "nft_ownership_layer", "augmented_condition_layer", "bulletin_layer",
      "option_contract_layer" }

LeafTemplates == Templates \ InnerTemplates

(***************************************************************************)
(* Bounds of the inputs                                                     *)
(***************************************************************************)
MaxLayers == 2      \* levels of a freely chosen puzzle
MaxNest == 34       \* levels of a regularly nested (deep) puzzle
NumHashes == 2      \* distinct curried puzzle hashes of non-raw puzzles

(***************************************************************************)
(* External library, as observed by the engine                              *)
(***************************************************************************)
\* DriverPuzzle::curried_puzzle_hash: the hash recorded in the outer level;
\* a raw puzzle hashes to 0, which no layered puzzle uses.
curried_puzzle_hash(puzzle) ==
    IF puzzle = << >> THEN 0 ELSE Head(puzzle).h

\* Layer::parse_puzzle(allocator, puzzle): Err, Ok(None) or Ok(Some(layer)).
parse_puzzle_result(t, puzzle) ==
    IF puzzle = << >> THEN "none"
    ELSE IF t \in Head(puzzle).fails THEN "err"
    ELSE IF t \in Head(puzzle).mods THEN "some"
    ELSE "none"

\* A template that takes a parser's error for a match.
parse_puzzle_err_as_match(t, puzzle) ==
    parse_puzzle_result(t, puzzle) # "none"

\* Layer::parse_puzzle(allocator, puzzle).ok().flatten() is Some(layer):
\* a mismatch (Ok(None)) and an internal parser failure (Err) both give None.
parse_puzzle(t, puzzle) ==
    parse_puzzle_result(t, puzzle) = "some"

\* layer.inner_puzzle of a parsed layer.
inner_puzzle(puzzle) == Tail(puzzle)

\* Layer::parse_solution(allocator, ptr): Ok carries the inner solution.  A
\* DID recovery solution is Ok(DidSolution::Recover) for the DID layer and
\* does not have the shape any other layer expects.
parse_solution(t, ptr) ==
    IF ptr = << >> THEN [status |-> "err", inner |-> << >>]
    ELSE IF Head(ptr) = "ok" THEN [status |-> "ok", inner |-> Tail(ptr)]
    ELSE IF Head(ptr) = "recover" /\ t = "did_layer"
         THEN [status |-> "recover", inner |-> << >>]
    ELSE [status |-> "err", inner |-> << >>]

(***************************************************************************)
(* recognize.rs: the templates                                              *)
(***************************************************************************)
\* The text each template puts in front of the parser's error.
ParseErrorText(t) ==
    CASE t = "cat_layer" -> "failed to parse CAT solution"
      [] t = "singleton_layer" -> "failed to parse singleton solution"
      [] t = "did_layer" -> "failed to parse DID solution"
      [] t = "nft_state_layer" -> "failed to parse NFT state solution"
      [] t = "nft_ownership_layer" -> "failed to parse NFT ownership solution"
      [] t = "augmented_condition_layer" -> "failed to parse augmented condition solution"
      [] t = "bulletin_layer" -> "failed to parse bulletin solution"
      [] t = "option_contract_layer" -> "failed to parse option contract solution"
      [] t = "revocation_layer" -> "failed to parse revocation solution"
      [] t = "p2_singleton_layer" -> "failed to parse p2_singleton solution"
      [] t = "p2_curried_layer" -> "failed to parse p2_curried solution"
      [] t = "p2_one_of_many_layer" -> "failed to parse p2_one_of_many solution"
      [] t = "p2_delegated_conditions_layer" -> "failed to parse p2_delegated_conditions solution"
      [] t = "settlement_layer" -> "failed to parse settlement solution"
      [] t = "stream_layer" -> "failed to parse stream solution"
      [] OTHER -> "failed to parse standard solution"

LayerMatch(name, next_puzzle, next_solution, solution, parse_error) ==
    [ name |-> name,
      next_puzzle |-> next_puzzle,
      next_solution |-> next_solution,
      solution |-> solution,
      parse_error |-> parse_error ]

\* The match on `solution` shared by the layers that wrap an inner puzzle:
\* Ok gives Some(inner solution), Err sets parse_error, None is
\* "missing_solution".  The result is the pair (next_solution, status) and
\* the parse_error.
InnerSolutionDropped(t, solution) ==
    IF solution = None
    THEN [next_solution |-> None, status |-> "missing_solution", parse_error |-> None]
    ELSE LET parsed == parse_solution(t, solution[1]) IN
         IF parsed.status = "ok"
         THEN [next_solution |-> None, status |-> "ok", parse_error |-> None]
         ELSE [next_solution |-> None, status |-> "error",
               parse_error |-> Some(ParseErrorText(t))]

\* A layer that hands its own solution on when it fails to parse it.
InnerSolutionKeptOnError(t, solution) ==
    IF solution = None
    THEN [next_solution |-> None, status |-> "missing_solution", parse_error |-> None]
    ELSE LET parsed == parse_solution(t, solution[1]) IN
         IF parsed.status = "ok"
         THEN [next_solution |-> Some(parsed.inner), status |-> "ok", parse_error |-> None]
         ELSE [next_solution |-> solution, status |-> "error",
               parse_error |-> Some(ParseErrorText(t))]

InnerSolution(t, solution) ==
    IF solution = None
    THEN [next_solution |-> None, status |-> "missing_solution", parse_error |-> None]
    ELSE LET parsed == parse_solution(t, solution[1]) IN
         IF parsed.status = "ok"
         THEN [next_solution |-> Some(parsed.inner), status |-> "ok", parse_error |-> None]
         ELSE [next_solution |-> None, status |-> "error",
               parse_error |-> Some(ParseErrorText(t))]

\* The same match in the leaf layers: the parsed solution is summarised and
\* no inner solution is handed on.
LeafSolutionMissingIsError(t, solution) ==
    IF solution = None
    THEN [next_solution |-> None, status |-> "error",
          parse_error |-> Some(ParseErrorText(t))]
    ELSE LET parsed == parse_solution(t, solution[1]) IN
         IF parsed.status = "ok"
         THEN [next_solution |-> None, status |-> "ok", parse_error |-> None]
         ELSE [next_solution |-> None, status |-> "error",
               parse_error |-> Some(ParseErrorText(t))]

LeafSolution(t, solution) ==
    IF solution = None
    THEN [next_solution |-> None, status |-> "missing_solution", parse_error |-> None]
    ELSE LET parsed == parse_solution(t, solution[1]) IN
         IF parsed.status = "ok"
         THEN [next_solution |-> None, status |-> "ok", parse_error |-> None]
         ELSE [next_solution |-> None, status |-> "error",
               parse_error |-> Some(ParseErrorText(t))]

\* A template that wraps an inner puzzle.
InnerLayer(t, puzzle, solution) ==
    IF ~ parse_puzzle(t, puzzle) THEN None
    ELSE LET s == InnerSolution(t, solution) IN
         Some(LayerMatch(t, Some(inner_puzzle(puzzle)), s.next_solution,
                         s.status, s.parse_error))

\* A leaf template: next_puzzle is None.
LeafLayerWithInner(t, puzzle, solution) ==
    IF ~ parse_puzzle(t, puzzle) THEN None
    ELSE LET s == LeafSolution(t, solution) IN
         Some(LayerMatch(t, Some(inner_puzzle(puzzle)), s.next_solution,
                         s.status, s.parse_error))

LeafLayer(t, puzzle, solution) ==
    IF ~ parse_puzzle(t, puzzle) THEN None
    ELSE LET s == LeafSolution(t, solution) IN
         Some(LayerMatch(t, None, s.next_solution, s.status, s.parse_error))

try_cat_layer(puzzle, solution) == InnerLayer("cat_layer", puzzle, solution)

try_singleton_layer(puzzle, solution) ==
    InnerLayer("singleton_layer", puzzle, solution)

\* The DID layer distinguishes Spend (inner solution) from Recover (none).
try_did_layer(puzzle, solution) ==
    IF ~ parse_puzzle("did_layer", puzzle) THEN None
    ELSE LET s == IF solution = None
                  THEN [next_solution |-> None, status |-> "missing_solution",
                        parse_error |-> None]
                  ELSE LET parsed == parse_solution("did_layer", solution[1]) IN
                       CASE parsed.status = "ok" ->
                              [next_solution |-> Some(parsed.inner),
                               status |-> "ok", parse_error |-> None]
                         [] parsed.status = "recover" ->
                              [next_solution |-> None,
                               status |-> "ok", parse_error |-> None]
                         [] OTHER ->
                              [next_solution |-> None, status |-> "error",
                               parse_error |-> Some(ParseErrorText("did_layer"))]
         IN  Some(LayerMatch("did_layer", Some(inner_puzzle(puzzle)),
                             s.next_solution, s.status, s.parse_error))

try_nft_state_layer(puzzle, solution) ==
    InnerLayer("nft_state_layer", puzzle, solution)

try_nft_ownership_layer(puzzle, solution) ==
    InnerLayer("nft_ownership_layer", puzzle, solution)

\* The royalty transfer layer takes no solution and parses none.
try_royalty_transfer_layer(puzzle) ==
    IF ~ parse_puzzle("royalty_transfer_layer", puzzle) THEN None
    ELSE Some(LayerMatch("royalty_transfer_layer", None, None, "unsupported", None))

try_augmented_condition_layer(puzzle, solution) ==
    InnerLayer("augmented_condition_layer", puzzle, solution)

try_bulletin_layer(puzzle, solution) ==
    InnerLayer("bulletin_layer", puzzle, solution)

try_option_contract_layer(puzzle, solution) ==
    InnerLayer("option_contract_layer", puzzle, solution)

try_revocation_layer(puzzle, solution) ==
    LeafLayer("revocation_layer", puzzle, solution)

try_p2_singleton_layer(puzzle, solution) ==
    LeafLayer("p2_singleton_layer", puzzle, solution)

try_p2_curried_layer(puzzle, solution) ==
    LeafLayer("p2_curried_layer", puzzle, solution)

try_p2_one_of_many_layer(puzzle, solution) ==
    LeafLayer("p2_one_of_many_layer", puzzle, solution)

try_p2_delegated_conditions_layer(puzzle, solution) ==
    LeafLayer("p2_delegated_conditions_layer", puzzle, solution)

try_settlement_layer(puzzle, solution) ==
    LeafLayer("settlement_layer", puzzle, solution)

try_stream_layer(puzzle, solution) ==
    LeafLayer("stream_layer", puzzle, solution)

try_standard_layer_unchecked(puzzle, solution) ==
    LET s == LeafSolution("standard_layer", solution) IN
    Some(LayerMatch("standard_layer", None, s.next_solution, s.status,
                    s.parse_error))

try_standard_layer(puzzle, solution) ==
    LeafLayer("standard_layer", puzzle, solution)

\* Each `if let Some(matched) = try_x(..) { matches.push(matched) }` appends
\* the template's Option to the vector, in the catalog order.
collect_matches_standard_first(puzzle, solution) ==
    try_standard_layer(puzzle, solution)
    \o try_cat_layer(puzzle, solution)
    \o try_singleton_layer(puzzle, solution)
    \o try_did_layer(puzzle, solution)
    \o try_nft_state_layer(puzzle, solution)
    \o try_nft_ownership_layer(puzzle, solution)
    \o try_royalty_transfer_layer(puzzle)
    \o try_augmented_condition_layer(puzzle, solution)
    \o try_bulletin_layer(puzzle, solution)
    \o try_option_contract_layer(puzzle, solution)
    \o try_revocation_layer(puzzle, solution)
    \o try_p2_singleton_layer(puzzle, solution)
    \o try_p2_curried_layer(puzzle, solution)
    \o try_p2_one_of_many_layer(puzzle, solution)
    \o try_p2_delegated_conditions_layer(puzzle, solution)
    \o try_settlement_layer(puzzle, solution)
    \o try_stream_layer(puzzle, solution)

collect_matches(puzzle, solution) ==
    try_cat_layer(puzzle, solution)
    \o try_singleton_layer(puzzle, solution)
    \o try_did_layer(puzzle, solution)
    \o try_nft_state_layer(puzzle, solution)
    \o try_nft_ownership_layer(puzzle, solution)
    \o try_royalty_transfer_layer(puzzle)
    \o try_augmented_condition_layer(puzzle, solution)
    \o try_bulletin_layer(puzzle, solution)
    \o try_option_contract_layer(puzzle, solution)
    \o try_revocation_layer(puzzle, solution)
    \o try_p2_singleton_layer(puzzle, solution)
    \o try_p2_curried_layer(puzzle, solution)
    \o try_p2_one_of_many_layer(puzzle, solution)
    \o try_p2_delegated_conditions_layer(puzzle, solution)
    \o try_settlement_layer(puzzle, solution)
    \o try_stream_layer(puzzle, solution)
    \o try_standard_layer(puzzle, solution)

candidate_from_match(matched, confidence) ==
    [ name |-> matched.name, confidence |-> confidence ]

(***************************************************************************)
(* recognize.rs: recognize_puzzle_and_solution                              *)
(***************************************************************************)
\* A decoder that returns a tree for every byte string.
node_from_bytes_backrefs_lenient(bytes) == Some(bytes.tree)

\* node_from_bytes_backrefs(&mut allocator, bytes): Err, or Ok(tree).
node_from_bytes_backrefs(bytes) ==
    IF bytes.ok THEN Some(bytes.tree) ELSE None

\* The candidates pushed by an iteration with more than one match.
AmbiguousCandidatesFirstOnly(matches) ==
    << candidate_from_match(matches[1], 5) >>

AmbiguousCandidates(matches) ==
    [ i \in 1..Len(matches) |-> candidate_from_match(matches[i], 5) ]

\* if matched.parse_error.is_some() { 0.8 } else { 1.0 }
\* The confidence of a guess for an accepted layer.
ConfidenceOfGuess(matched) == 5

ConfidenceAlwaysFull(matched) == 10

Confidence(matched) ==
    IF matched.parse_error # None THEN 8 ELSE 10

\* candidates.push(candidate_from_match(&matched, ..)) of a single match.
PushCandidateSkipped(cands, matched) == cands

PushCandidate(cands, matched) ==
    Append(cands, candidate_from_match(matched, Confidence(matched)))

\* A wrapper record that carries a hash whatever the match declares.
WrapperInfoAlwaysInnerHash(matched) ==
    [ name |-> matched.name,
      inner_puzzle_tree_hash |->
          IF matched.next_puzzle = None THEN Some(0)
          ELSE Some(curried_puzzle_hash(matched.next_puzzle[1])),
      parse_error |-> matched.parse_error ]

WrapperInfoNoInnerHash(matched) ==
    [ name |-> matched.name,
      inner_puzzle_tree_hash |-> None,
      parse_error |-> matched.parse_error ]

WrapperInfo(matched) ==
    [ name |-> matched.name,
      inner_puzzle_tree_hash |->
          IF matched.next_puzzle = None THEN None
          ELSE Some(curried_puzzle_hash(matched.next_puzzle[1])),
      parse_error |-> matched.parse_error ]

\* next_puzzle.curried_puzzle_hash() == current_hash
SameHashNever(next_puzzle, hash) == FALSE

SameHash(next_puzzle, hash) ==
    curried_puzzle_hash(next_puzzle) = hash

\* recognized: !wrappers.is_empty()
RecognizedFromCandidates(ws, cands) == cands # << >>

Recognized(ws, cands) == ws # << >>

\* Lines 38-66: decode both inputs.  A puzzle that does not decode returns at
\* once; a solution that does not decode is only noted.
Decode ==
    /\ pc = "start"
    /\ LET puzzle_ptr == node_from_bytes_backrefs(puzzle_reveal_bytes)
           solution_ptr == node_from_bytes_backrefs(solution_bytes)
       IN  IF puzzle_ptr = None
           THEN /\ result' = Some([ recognized |-> FALSE,
                                    candidates |-> << >>,
                                    wrappers |-> << >>,
                                    parsed_solution |-> Some(
                                      [ layers |-> << >>,
                                        decode_error |-> Some("failed to decode puzzle_reveal bytes") ]) ])
                /\ pc' = "done"
                /\ stop' = "puzzle_decode_error"
                /\ UNCHANGED << current_puzzle, current_solution,
                                solution_decode_error >>
           ELSE /\ current_puzzle' = puzzle_ptr[1]
                /\ current_solution' = solution_ptr
                /\ solution_decode_error' =
                       IF solution_ptr = None
                       THEN Some("failed to decode solution bytes") ELSE None
                /\ pc' = "loop"
                /\ UNCHANGED << result, stop >>
    /\ UNCHANGED << puzzle_reveal_bytes, solution_bytes, iter, current_hash,
                    wrappers, candidates, solution_layers >>
    /\ UNCHANGED << featVars, bundleVars, loadVars, helperVars >>

\* Lines 68-130: one iteration of `for _ in 0..MAX_LAYER_DEPTH`.
Iterate ==
    /\ pc = "loop"
    /\ iter < MAX_LAYER_DEPTH
    /\ iter' = iter + 1
    /\ LET matches == collect_matches(current_puzzle, current_solution) IN
       IF matches = << >>
       THEN /\ pc' = "exit"
            /\ stop' = "unrecognized"
            /\ UNCHANGED << current_puzzle, current_solution, current_hash,
                            wrappers, candidates, solution_layers >>
       ELSE IF Len(matches) > 1
       THEN /\ candidates' = candidates \o AmbiguousCandidates(matches)
            /\ solution_layers' = Append(solution_layers,
                   [ status |-> "ambiguous",
                     options |-> [ i \in 1..Len(matches) |-> matches[i].name ] ])
            /\ pc' = "exit"
            /\ stop' = "ambiguous"
            /\ UNCHANGED << current_puzzle, current_solution, current_hash,
                            wrappers >>
       ELSE LET matched == matches[1]
                hash == curried_puzzle_hash(current_puzzle)
            IN  /\ current_hash' = Some(hash)
                /\ wrappers' = Append(wrappers, WrapperInfo(matched))
                /\ candidates' = PushCandidate(candidates, matched)
                /\ current_solution' = matched.next_solution
                /\ IF matched.next_puzzle = None
                   THEN /\ solution_layers' = Append(solution_layers,
                               [ layer |-> matched.name, result |-> matched.solution ])
                        /\ pc' = "exit"
                        /\ stop' = "no_further_layer"
                        /\ UNCHANGED current_puzzle
                   ELSE IF SameHash(matched.next_puzzle[1], hash)
                   THEN /\ solution_layers' =
                               Append(solution_layers,
                                   [ layer |-> matched.name, result |-> matched.solution ])
                               \o << [ status |-> "stopped",
                                       reason |-> "next puzzle hash equals current hash" ] >>
                        /\ pc' = "exit"
                        /\ stop' = "cycle"
                        /\ UNCHANGED current_puzzle
                   ELSE /\ solution_layers' = Append(solution_layers,
                               [ layer |-> matched.name, result |-> matched.solution ])
                        /\ current_puzzle' = matched.next_puzzle[1]
                        /\ UNCHANGED << pc, stop >>
    /\ UNCHANGED << puzzle_reveal_bytes, solution_bytes, solution_decode_error,
                    result >>
    /\ UNCHANGED << featVars, bundleVars, loadVars, helperVars >>

\* The range 0..MAX_LAYER_DEPTH is exhausted: the loop ends without a break.
LoopExhausted ==
    /\ pc = "loop"
    /\ iter >= MAX_LAYER_DEPTH
    /\ pc' = "exit"
    /\ stop' = "depth_exceeded"
    /\ UNCHANGED << puzzle_reveal_bytes, solution_bytes, iter, current_puzzle,
                    current_solution, current_hash, solution_decode_error,
                    wrappers, candidates, solution_layers, result >>
    /\ UNCHANGED << featVars, bundleVars, loadVars, helperVars >>

\* Lines 132-147: build parsed_solution and return the PuzzleRecognition.
\* remaining_solution holds node_summary of the solution still in hand.
Return ==
    /\ pc = "exit"
    /\ LET parsed_solution ==
               IF solution_layers = << >> /\ solution_decode_error = None
               THEN None
               ELSE Some([ layers |-> solution_layers,
                           remaining_solution |-> current_solution,
                           decode_error |-> solution_decode_error ])
       IN  result' = Some([ recognized |-> Recognized(wrappers, candidates),
                            candidates |-> candidates,
                            wrappers |-> wrappers,
                            parsed_solution |-> parsed_solution ])
    /\ pc' = "done"
    /\ UNCHANGED << puzzle_reveal_bytes, solution_bytes, stop, iter,
                    current_puzzle, current_solution, current_hash,
                    solution_decode_error, wrappers, candidates,
                    solution_layers >>
    /\ UNCHANGED << featVars, bundleVars, loadVars, helperVars >>

RECURSIVE peel(_, _, _, _, _, _)
\* The state of the loop when it ends.
PeelResult(w, c, l, sol) ==
    [ wrappers |-> w, candidates |-> c, solution_layers |-> l,
      current_solution |-> sol ]

\* Lines 107-129: after the push of the wrapper, the candidate and the layer
\* of the one match.
peel_one(matched, hash, w, c, l, n) ==
    IF matched.next_puzzle = None
    THEN PeelResult(w, c, l, matched.next_solution)
    ELSE IF SameHash(matched.next_puzzle[1], hash)
    THEN PeelResult(w, c,
                    Append(l, [ status |-> "stopped",
                                reason |-> "next puzzle hash equals current hash" ]),
                    matched.next_solution)
    ELSE peel(matched.next_puzzle[1], matched.next_solution, w, c, l, n + 1)

\* Lines 70-106: one iteration, given the matches of the current puzzle.
peel_matches(matches, puzzle, solution, ws, cands, layers, n) ==
    IF n >= MAX_LAYER_DEPTH \/ matches = << >>
    THEN PeelResult(ws, cands, layers, solution)
    ELSE IF Len(matches) > 1
    THEN PeelResult(ws, cands \o AmbiguousCandidates(matches),
                    Append(layers,
                        [ status |-> "ambiguous",
                          options |-> [ i \in 1..Len(matches) |-> matches[i].name ] ]),
                    solution)
    ELSE peel_one(matches[1], curried_puzzle_hash(puzzle),
                  Append(ws, WrapperInfo(matches[1])),
                  PushCandidate(cands, matches[1]),
                  Append(layers, [ layer |-> matches[1].name,
                                   result |-> matches[1].solution ]),
                  n)

\* The loop of lines 68-130 from its n-th iteration on, run to the end: what
\* a caller of recognize_puzzle_and_solution gets back of it.
peel(puzzle, solution, ws, cands, layers, n) ==
    peel_matches(collect_matches(puzzle, solution), puzzle, solution,
                 ws, cands, layers, n)

\* Lines 132-147: the PuzzleRecognition built when the loop has ended.
recognition_result(run, decode_error) ==
    [ recognized |-> Recognized(run.wrappers, run.candidates),
      candidates |-> run.candidates,
      wrappers |-> run.wrappers,
      parsed_solution |->
          IF run.solution_layers = << >> /\ decode_error = None
          THEN None
          ELSE Some([ layers |-> run.solution_layers,
                      remaining_solution |-> run.current_solution,
                      decode_error |-> decode_error ]) ]

\* Lines 41-148, given what the two decoders returned.
recognition_of(puzzle_ptr, solution_ptr) ==
    IF puzzle_ptr = None
    THEN [ recognized |-> FALSE,
           candidates |-> << >>,
           wrappers |-> << >>,
           parsed_solution |-> Some(
             [ layers |-> << >>,
               decode_error |-> Some("failed to decode puzzle_reveal bytes") ]) ]
    ELSE recognition_result(
             peel(puzzle_ptr[1], solution_ptr, << >>, << >>, << >>, 0),
             IF solution_ptr = None
             THEN Some("failed to decode solution bytes") ELSE None)

\* recognize_puzzle_and_solution as its callers in inspect.rs use it: the
\* PuzzleRecognition returned for a pair of byte strings.
recognize_puzzle_and_solution(puzzle_bytes, sol_bytes) ==
    recognition_of(node_from_bytes_backrefs(puzzle_bytes),
                   node_from_bytes_backrefs(sol_bytes))

(***************************************************************************)
(* Inputs of the recognition engine                                         *)
(***************************************************************************)
Hashes == 1..NumHashes

\* Templates that may accept the same puzzle at once.  The library's
\* templates are exclusive by design; the engine must not rely on it.
AmbiguousPool ==
    { "cat_layer", "did_layer", "royalty_transfer_layer", "standard_layer" }

MatchChoices ==
    { {} } \cup { {t} : t \in Templates }
           \cup { S \in SUBSET AmbiguousPool : Cardinality(S) >= 2 }

\* Levels on which the parser of some template that does not match fails.
FailingLevels ==
    { [ mods |-> m, h |-> 1, fails |-> f ] :
        m \in { {}, { "cat_layer" }, { "standard_layer" }, { "cat_layer", "did_layer" } },
        f \in { { "singleton_layer" }, { "nft_state_layer", "stream_layer" } } }

Levels == [ mods : MatchChoices, h : Hashes, fails : { {} } ] \cup FailingLevels

\* The wrapping templates of freely chosen puzzles: cat_layer parses as every
\* inner template but did_layer does, and did_layer has the recovery branch.
\* Deep puzzles (below) go through all the inner templates.
FreeInnerTemplates == { "cat_layer", "did_layer" }

\* Levels the engine descends through: exactly one template, with an inner puzzle.
DescendLevels ==
    [ mods : { {t} : t \in FreeInnerTemplates }, h : Hashes, fails : { {} } ]

RECURSIVE PuzzlesOfLen(_)
PuzzlesOfLen(n) ==
    IF n = 0 THEN { << >> }
    ELSE IF n = 1 THEN { << lv >> : lv \in Levels }
    ELSE { << lv >> \o p : lv \in DescendLevels, p \in PuzzlesOfLen(n - 1) }

\* Solutions that parse for j layers and then end, fail, or are a DID recovery.
SolutionsUpTo(n) ==
    { [ i \in 1..j |-> "ok" ] \o e :
        j \in 0..n, e \in { << >>, << "err" >>, << "recover" >> } }

Undecodable == [ ok |-> FALSE, tree |-> << >> ]

Decodable(t) == [ ok |-> TRUE, tree |-> t ]

FreeSolutionBytes ==
    { Undecodable } \cup { Decodable(t) : t \in SolutionsUpTo(MaxLayers) }

\* The inner templates in catalog order.
InnerCatalog == SelectSeq(Catalog, LAMBDA t : t \in InnerTemplates)

\* n wrapping layers, the template rotating through the inner templates from
\* offset o, consecutive levels with different hashes, around `core`.
DeepPuzzle(n, o, core) ==
    [ i \in 1..n |->
        [ mods |-> { InnerCatalog[((i + o) % Len(InnerCatalog)) + 1] },
          h |-> 1 + (i % NumHashes),
          fails |-> {} ] ] \o core

\* The innermost puzzle: raw, or a standard layer whose hash either goes on
\* rotating or repeats the hash of the layer around it.
DeepCores(n) ==
    { << >>,
      << [ mods |-> { "standard_layer" }, h |-> 1 + ((n + 1) % NumHashes),
           fails |-> {} ] >>,
      << [ mods |-> { "standard_layer" }, h |-> 1 + (n % NumHashes),
           fails |-> {} ] >> }

\* Solutions of a deep puzzle: undecodable, valid at every level, or invalid
\* at the first or at the second level.
DeepSolutionBytes ==
    { Undecodable,
      Decodable([ i \in 1..(MaxNest + 1) |-> "ok" ]),
      Decodable(<< "err" >>),
      Decodable(<< "ok", "err" >>) }

(***************************************************************************)
(* inspect.rs: the static feature extractor                                 *)
(*                                                                         *)
(* A tree node is [atom |-> bytes] or [left |-> node, right |-> node];      *)
(* bytes are sequences of 0..255.  A String is a sequence of one-character  *)
(* strings.                                                                 *)
(***************************************************************************)
Atom(bytes) == [ atom |-> bytes ]

Pair(l, r) == [ left |-> l, right |-> r ]

\* allocator.sexp(node) is SExp::Atom
IsAtom(node) == "atom" \in DOMAIN node

\* keyword_from_atom(OPERATORS_LATEST_VERSION), the operators 0x01..0x09 and
\* 0x10 of the table: atom bytes to name.
keywords ==
    [ b \in { << 1 >>, << 2 >>, << 3 >>, << 4 >>, << 5 >>, << 6 >>, << 7 >>,
              << 8 >>, << 9 >>, << 16 >> } |->
        CASE b = << 1 >> -> "q"
          [] b = << 2 >> -> "a"
          [] b = << 3 >> -> "i"
          [] b = << 4 >> -> "c"
          [] b = << 5 >> -> "f"
          [] b = << 6 >> -> "r"
          [] b = << 7 >> -> "l"
          [] b = << 8 >> -> "x"
          [] b = << 9 >> -> "="
          [] OTHER -> "+" ]

\* The operator names in ascending String order (byte-wise).
KeywordOrder == << "+", "=", "a", "c", "f", "i", "l", "q", "r", "x" >>

HexDigits ==
    << "0", "1", "2", "3", "4", "5", "6", "7", "8", "9",
       "a", "b", "c", "d", "e", "f" >>

\* hex::encode: two lowercase digits per byte, high nibble first.
hex_encode(bytes) ==
    [ i \in 1..(2 * Len(bytes)) |->
        IF i % 2 = 1 THEN HexDigits[(bytes[(i + 1) \div 2] \div 16) + 1]
        ELSE HexDigits[(bytes[i \div 2] % 16) + 1] ]

\* util.rs: format!("0x{}", hex::encode(bytes))
encode_hex_prefixed(bytes) == << "0", "x" >> \o hex_encode(bytes)

IndexIn(seq, x) == CHOOSE i \in DOMAIN seq : seq[i] = x

\* Ord for String (byte-wise), on operator names and on hex strings.
NameLess(a, b) == IndexIn(KeywordOrder, a) < IndexIn(KeywordOrder, b)

\* The characters of a hex string in ascending byte order: digits, then
\* lowercase letters; 'x' sorts after all of them.
CharOrder == HexDigits \o << "x" >>

FirstDifference(a, b) ==
    LET n == IF Len(a) < Len(b) THEN Len(a) ELSE Len(b)
        d == { i \in 1..n : a[i] # b[i] }
    IN  IF d = {} THEN 0 ELSE CHOOSE i \in d : \A j \in d : i <= j

StringLess(a, b) ==
    LET k == FirstDifference(a, b) IN
    IF k = 0 THEN Len(a) < Len(b)
    ELSE IndexIn(CharOrder, a[k]) < IndexIn(CharOrder, b[k])

\* Ord for the byte arrays of equal length that hold a u64 or a u32.
BytesLess(a, b) ==
    LET k == FirstDifference(a, b) IN
    k # 0 /\ a[k] < b[k]

U64LessEq(a, b) == a = b \/ BytesLess(a, b)

\* A u64 is kept as its eight bytes, most significant first, and a u32 as
\* its four bytes: the values range beyond what the checker's integers hold.
U64Zero == [ i \in 1..8 |-> 0 ]

\* 1_000_000 = 0x0F4240
OneMillion == << 0, 0, 0, 0, 0, 15, 66, 64 >>

\* u64::from(u32::MAX)
U32Max == << 0, 0, 0, 0, 255, 255, 255, 255 >>

\* The integer held by a u64 that is at most 1_000_000.
U64ToInt(v) == (v[6] * 65536) + (v[7] * 256) + v[8]

\* value as u32
AsU32(v) == SubSeq(v, 5, 8)

\* The loop of atom_to_u64: v = (v << 8) | u64::from(*b).  The shift drops
\* the top byte of the register and the new byte fills the low one.
RECURSIVE ShiftIn(_, _)
ShiftIn(v, bytes) ==
    IF bytes = << >> THEN v
    ELSE ShiftIn(Tail(v) \o << Head(bytes) >>, Tail(bytes))

\* atom_to_u64 without the test of the length.
atom_to_u64_any_length(atom) ==
    IF atom = << >> THEN Some(U64Zero)
    ELSE IF atom[1] >= 128 THEN None
    ELSE Some(ShiftIn(U64Zero, atom))

\* atom_to_u64: Option<u64>
atom_to_u64(atom) ==
    IF atom = << >> THEN Some(U64Zero)
    ELSE IF atom[1] >= 128 THEN None
    ELSE IF Len(atom) > 8 THEN None
    ELSE Some(ShiftIn(U64Zero, atom))

NoFeatures ==
    [ operators |-> {}, env_paths |-> {}, bytes32 |-> {}, g1_pubkeys |-> {},
      small_ints |-> {} ]

Merge(f, g) ==
    [ operators |-> f.operators \cup g.operators,
      env_paths |-> f.env_paths \cup g.env_paths,
      bytes32 |-> f.bytes32 \cup g.bytes32,
      g1_pubkeys |-> f.g1_pubkeys \cup g.g1_pubkeys,
      small_ints |-> f.small_ints \cup g.small_ints ]

\* The atom arm without the test value > 0.
VisitAtomZeroPath(bytes, in_quoted, operator_position) ==
    LET value == atom_to_u64(bytes) IN
    [ operators |-> {},
      env_paths |->
          IF /\ value # None
             /\ ~ in_quoted
             /\ ~ operator_position
             /\ U64LessEq(value[1], U32Max)
          THEN { AsU32(value[1]) } ELSE {},
      bytes32 |-> IF Len(bytes) = 32 THEN { encode_hex_prefixed(bytes) } ELSE {},
      g1_pubkeys |->
          IF Len(bytes) # 32 /\ Len(bytes) = 48
          THEN { encode_hex_prefixed(bytes) } ELSE {},
      small_ints |->
          IF value # None /\ U64LessEq(value[1], OneMillion)
          THEN { U64ToInt(value[1]) } ELSE {} ]

\* The SExp::Atom arm of visit_clvm: what one atom inserts into the sets.
VisitAtom(bytes, in_quoted, operator_position) ==
    LET value == atom_to_u64(bytes) IN
    [ operators |-> {},
      env_paths |->
          IF /\ value # None
             /\ ~ in_quoted
             /\ ~ operator_position
             /\ value[1] # U64Zero
             /\ U64LessEq(value[1], U32Max)
          THEN { AsU32(value[1]) } ELSE {},
      bytes32 |-> IF Len(bytes) = 32 THEN { encode_hex_prefixed(bytes) } ELSE {},
      g1_pubkeys |->
          IF Len(bytes) # 32 /\ Len(bytes) = 48
          THEN { encode_hex_prefixed(bytes) } ELSE {},
      small_ints |->
          IF value # None /\ U64LessEq(value[1], OneMillion)
          THEN { U64ToInt(value[1]) } ELSE {} ]

\* What the SExp::Pair arm inserts itself: the name of a left atom that is a
\* keyword, unless the pair lies in quoted data.
PairOperatorIgnoringQuote(node, in_quoted) ==
    IF IsAtom(node.left) /\ node.left.atom \in DOMAIN keywords
    THEN { keywords[node.left.atom] } ELSE {}

PairOperator(node, in_quoted) ==
    IF ~ in_quoted /\ IsAtom(node.left) /\ node.left.atom \in DOMAIN keywords
    THEN { keywords[node.left.atom] } ELSE {}

\* visit_clvm: the sets are threaded through the recursion by &mut; the
\* result here is everything the visit of `node` inserts.
RECURSIVE visit_clvm(_, _, _)
visit_clvm(node, in_quoted, operator_position) ==
    IF IsAtom(node)
    THEN VisitAtom(node.atom, in_quoted, operator_position)
    ELSE LET is_quote == /\ ~ in_quoted
                         /\ IsAtom(node.left)
                         /\ node.left.atom = << 1 >>
             own == [ NoFeatures EXCEPT !.operators = PairOperator(node, in_quoted) ]
         IN  Merge(own,
                   Merge(visit_clvm(node.left, in_quoted, TRUE),
                         visit_clvm(node.right, in_quoted \/ is_quote, FALSE)))

\* Ascending iteration of a BTreeSet, collected into a Vec.
IntLess(a, b) == a < b

\* Ascending iteration of a BTreeSet, collected into a Vec: the element at
\* position i has i - 1 smaller elements.
SortedNames(S) ==
    [ i \in 1..Cardinality(S) |->
        CHOOSE x \in S : Cardinality({ y \in S : NameLess(y, x) }) = i - 1 ]

\* The elements from the greatest down.
SortedStringsDescending(S) ==
    [ i \in 1..Cardinality(S) |->
        CHOOSE x \in S : Cardinality({ y \in S : StringLess(x, y) }) = i - 1 ]

SortedStrings(S) ==
    [ i \in 1..Cardinality(S) |->
        CHOOSE x \in S : Cardinality({ y \in S : StringLess(y, x) }) = i - 1 ]

SortedU32(S) ==
    [ i \in 1..Cardinality(S) |->
        CHOOSE x \in S : Cardinality({ y \in S : BytesLess(y, x) }) = i - 1 ]

SortedU64(S) ==
    [ i \in 1..Cardinality(S) |->
        CHOOSE x \in S : Cardinality({ y \in S : IntLess(y, x) }) = i - 1 ]

extract_static_features(root) ==
    LET sets == visit_clvm(root, FALSE, FALSE) IN
    [ operators_used |-> SortedNames(sets.operators),
      env_paths_used |-> SortedU32(sets.env_paths),
      constants |->
          [ bytes32 |-> SortedStrings(sets.bytes32),
            g1_pubkeys |-> SortedStrings(sets.g1_pubkeys),
            small_ints |-> SortedU64(sets.small_ints) ] ]

\* analyze_clvm_bytes, the StaticFeatures component of its result.
analyze_clvm_bytes(bytes) ==
    LET node == node_from_bytes_backrefs(bytes) IN
    IF node # None
    THEN extract_static_features(node[1])
    ELSE [ operators_used |-> << >>,
           env_paths_used |-> << >>,
           constants |-> [ bytes32 |-> << >>, g1_pubkeys |-> << >>,
                           small_ints |-> << >> ] ]

Analyze ==
    /\ fpc = "ready"
    /\ features' = Some(analyze_clvm_bytes(clvm_bytes))
    /\ fpc' = "done"
    /\ UNCHANGED clvm_bytes
    /\ UNCHANGED << engineVars, bundleVars, loadVars, helperVars >>

(***************************************************************************)
(* Inputs of the feature extractor                                          *)
(***************************************************************************)
MaxLeaves == 4      \* atoms of an input tree

Bytes32 == [ i \in 1..32 |-> IF i = 1 THEN 1 ELSE 171 ]

Bytes48 == [ i \in 1..48 |-> 16 ]

\* A second constant of each length, below the first in the order of the
\* hex strings.
LowBytes32 == [ i \in 1..32 |-> IF i = 1 THEN 1 ELSE 18 ]

LowBytes48 == [ i \in 1..48 |-> 9 ]

InputAtoms ==
    { << >>, << 1 >>, << 2 >>, Bytes32, Bytes48, LowBytes32, LowBytes48 }

\* Atoms at the limits of the integer reading: 0, 1, a set high bit, 128
\* with its leading zero, 1_000_000 and its successor, u32::MAX and its
\* successor, and nine bytes.
MillionAtom == << 15, 66, 64 >>

U32MaxAtom == << 0, 255, 255, 255, 255 >>

BoundaryAtoms ==
    { << >>, << 1 >>, << 128 >>, << 0, 128 >>, MillionAtom, << 15, 66, 65 >>,
      U32MaxAtom, << 1, 0, 0, 0, 0 >>, << 0, 0, 0, 0, 0, 0, 0, 0, 1 >> }

MaxBoundaryLeaves == 3      \* atoms of an input tree of boundary atoms

RECURSIVE BoundaryTrees(_)
BoundaryTrees(n) ==
    IF n = 1 THEN { Atom(b) : b \in BoundaryAtoms }
    ELSE UNION { { Pair(l, r) : l \in BoundaryTrees(k),
                                r \in BoundaryTrees(n - k) } : k \in 1..(n - 1) }

RECURSIVE TreesWithLeaves(_)
TreesWithLeaves(n) ==
    IF n = 1 THEN { Atom(b) : b \in InputAtoms }
    ELSE UNION { { Pair(l, r) : l \in TreesWithLeaves(k),
                                r \in TreesWithLeaves(n - k) } : k \in 1..(n - 1) }

(***************************************************************************)
(* inspect.rs: inspect_bundle                                               *)
(*                                                                         *)
(* A byte string of a coin spend goes to the feature extractor and to the   *)
(* recognition engine; it is modelled by what each of them sees of it:      *)
(* [ok, tree, layers], the CLVM tree and the puzzle (or solution) layers.   *)
(* Of the InspectionOutput the model keeps input, result.status,            *)
(* result.error, result.summary and result.spends; the texts that do not    *)
(* depend on the bundle (schema_version, tool, network), the disassembly,   *)
(* the explanation and the signature conditions are left out.               *)
(***************************************************************************)
AsClvm(bytes) == [ ok |-> bytes.ok, tree |-> bytes.tree ]

AsDriver(bytes) == [ ok |-> bytes.ok, tree |-> bytes.layers ]

\* InputSource::kind
kind(src) ==
    CASE src = "Mempool" -> "mempool_item"
      [] src = "Block" -> "block"
      [] src = "Coin" -> "coin"

\* Coin::coin_id, a hash of the three fields: one id per coin.
coin_id(coin) ==
    coin.parent_coin_info * 100 + coin.puzzle_hash * 10 + coin.amount

coin_ref_from_coin(coin) ==
    [ coin_id |-> coin_id(coin),
      parent_coin_id |-> coin.parent_coin_info,
      puzzle_hash |-> coin.puzzle_hash,
      amount |-> coin.amount ]

FailureInfo(message) ==
    [ kind |-> "validation_error", message |-> message ]

\* Lines 162-222: the SpendAnalysis of one coin spend of a rejected bundle.
FailedSpendAnalysis(spend, message) ==
    [ coin_spend |->
          [ coin |-> coin_ref_from_coin(spend.coin),
            puzzle_reveal |-> spend.puzzle_reveal,
            solution |-> spend.solution ],
      puzzle |->
          [ recognition |->
                recognize_puzzle_and_solution(AsDriver(spend.puzzle_reveal),
                                              AsDriver(spend.solution)) ],
      evaluation |->
          [ status |-> "failed",
            cost |-> 0,
            conditions |-> << >>,
            additions |-> << >>,
            failure |-> Some(FailureInfo(message)) ],
      puzzle_behavior |->
          [ static_features |-> analyze_clvm_bytes(AsClvm(spend.puzzle_reveal)),
            dynamic |->
                [ status |-> "failed",
                  cost |-> 0,
                  conditions |-> << >>,
                  created_coins |-> << >>,
                  failure |-> Some(FailureInfo(message)) ] ] ]

InputInfo(src, nts) ==
    [ source |-> [ kind |-> kind(src) ], notes |-> nts ]

build_error_output_without_spends(src, nts, bundle, message) ==
    [ input |-> InputInfo(src, nts),
      result |->
          [ status |-> "failed",
            error |-> Some(FailureInfo(message)),
            summary |->
                [ removals |-> << >>,
                  additions |-> << >>,
                  fee_mojos |-> U64Zero,
                  net_xch_delta_by_puzzle_hash |-> << >> ],
            spends |-> << >> ] ]

build_error_output(src, nts, bundle, message) ==
    [ input |-> InputInfo(src, nts),
      result |->
          [ status |-> "failed",
            error |-> Some(FailureInfo(message)),
            summary |->
                [ removals |->
                      [ i \in 1..Len(bundle.coin_spends) |->
                          coin_ref_from_coin(bundle.coin_spends[i].coin) ],
                  additions |-> << >>,
                  fee_mojos |-> U64Zero,
                  net_xch_delta_by_puzzle_hash |-> << >> ],
            spends |->
                [ i \in 1..Len(bundle.coin_spends) |->
                    FailedSpendAnalysis(bundle.coin_spends[i], message) ] ] ]

\* The comparison of lines 281-286: puzzle hash, then amount, then hint
\* (None before Some).
CreateCoinLess(a, b) ==
    \/ a.puzzle_hash < b.puzzle_hash
    \/ /\ a.puzzle_hash = b.puzzle_hash
       /\ \/ a.amount < b.amount
          \/ /\ a.amount = b.amount
             /\ \/ a.hint = None /\ b.hint # None
                \/ a.hint # None /\ b.hint # None /\ a.hint[1] < b.hint[1]

\* create_coin.sort_by(..): a stable sort.
sort_create_coin(seq) ==
    LET place(i) ==
            1 + Cardinality({ j \in DOMAIN seq : CreateCoinLess(seq[j], seq[i]) })
              + Cardinality({ j \in 1..(i - 1) :
                                /\ ~ CreateCoinLess(seq[j], seq[i])
                                /\ ~ CreateCoinLess(seq[i], seq[j]) })
    IN  [ p \in 1..Len(seq) |-> seq[CHOOSE i \in DOMAIN seq : place(i) = p] ]

\* sort_by(|a, b| a.coin_id.cmp(&b.coin_id)): a stable sort.
sort_by_coin_id(seq) ==
    LET place(i) ==
            1 + Cardinality({ j \in DOMAIN seq : seq[j].coin_id < seq[i].coin_id })
              + Cardinality({ j \in 1..(i - 1) : seq[j].coin_id = seq[i].coin_id })
    IN  [ p \in 1..Len(seq) |-> seq[CHOOSE i \in DOMAIN seq : place(i) = p] ]

\* Lines 288-441: the SpendAnalysis, given the sorted CREATE_COIN conditions
\* and the cost.
accepted_spend(spend, parent, create_coin, cost) ==
    LET additions ==
            [ i \in 1..Len(create_coin) |->
                coin_ref_from_coin(
                    [ parent_coin_info |-> parent,
                      puzzle_hash |-> create_coin[i].puzzle_hash,
                      amount |-> create_coin[i].amount ]) ]
        conditions ==
            [ i \in 1..Len(create_coin) |->
                [ opcode |-> "CREATE_COIN",
                  puzzle_hash |-> create_coin[i].puzzle_hash,
                  amount |-> create_coin[i].amount,
                  hint |-> create_coin[i].hint ] ]
    IN  [ coin_spend |->
              [ coin |-> coin_ref_from_coin(spend.coin),
                puzzle_reveal |-> spend.puzzle_reveal,
                solution |-> spend.solution ],
          puzzle |->
              [ recognition |->
                    recognize_puzzle_and_solution(AsDriver(spend.puzzle_reveal),
                                                  AsDriver(spend.solution)) ],
          evaluation |->
              [ status |-> "ok",
                cost |-> cost,
                conditions |-> conditions,
                additions |-> additions,
                failure |-> None ],
          puzzle_behavior |->
              [ static_features |-> analyze_clvm_bytes(AsClvm(spend.puzzle_reveal)),
                dynamic |->
                    [ status |-> "ok",
                      cost |-> cost,
                      conditions |-> conditions,
                      created_coins |-> additions,
                      failure |-> None ] ] ]

\* Lines 269-441, the CREATE_COIN conditions: the SpendAnalysis of one coin
\* spend the executor accepted.
analyze_single_spend(spend, conds) ==
    accepted_spend(spend, conds.coin_id, sort_create_coin(conds.create_coin),
                   conds.execution_cost + conds.condition_cost)

\* Concatenation of the additions of the first n spends, in order.
RECURSIVE extend_additions(_, _)
extend_additions(spends, n) ==
    IF n = 0 THEN << >>
    ELSE extend_additions(spends, n - 1) \o spends[n].evaluation.additions

\* *map.entry(key).or_insert(0) += amount
add_to_entry(map, key, amount) ==
    [ k \in DOMAIN map \cup { key } |->
        (IF k \in DOMAIN map THEN map[k] ELSE 0) + (IF k = key THEN amount ELSE 0) ]

\* Lines 507-512: the map after the first n coins of a list, each amount
\* taken with the given sign.
RECURSIVE fold_coins(_, _, _, _)
fold_coins(map, coins, n, sign) ==
    IF n = 0 THEN map
    ELSE add_to_entry(fold_coins(map, coins, n - 1, sign),
                      coins[n].puzzle_hash, sign * coins[n].amount)

\* BTreeMap::into_iter().map(..).collect(): the entries in ascending order of
\* their keys.
into_net_deltas(map) ==
    [ p \in 1..Cardinality(DOMAIN map) |->
        LET key == CHOOSE k \in DOMAIN map :
                       Cardinality({ j \in DOMAIN map : j < k }) = p - 1
        IN  [ puzzle_hash |-> key, delta_mojos |-> map[key] ] ]

\* Lines 507-512
net_delta_map(removals, additions) ==
    fold_coins(fold_coins(<< >>, removals, Len(removals), -1),
               additions, Len(additions), 1)

\* A net delta that leaves out the puzzle hashes whose delta is 0.
compute_net_delta_nonzero(removals, additions) ==
    SelectSeq(into_net_deltas(net_delta_map(removals, additions)),
              LAMBDA entry : entry.delta_mojos # 0)

\* Lines 505-520
compute_net_delta(removals, additions) ==
    into_net_deltas(net_delta_map(removals, additions))

\* A u128 is kept as its sixteen bytes, most significant first.
U128Zero == [ i \in 1..16 |-> 0 ]

\* u64::MAX
U64Max == [ i \in 1..8 |-> 255 ]

\* The byte of a - b at position i, for a >= b: the lower bytes borrow one
\* when those of a are below those of b.
SubByte(a, b, i) ==
    (256 + a[i] - b[i]
         - (IF BytesLess(SubSeq(a, i + 1, Len(a)), SubSeq(b, i + 1, Len(b)))
            THEN 1 ELSE 0)) % 256

\* u128::wrapping_sub
wrapping_sub(a, b) == [ i \in 1..16 |-> SubByte(a, b, i) ]

\* u128::saturating_sub
saturating_sub(a, b) ==
    IF BytesLess(a, b) THEN U128Zero ELSE wrapping_sub(a, b)

\* u64::try_from(u128).unwrap_or(u64::MAX)
try_into_u64_or_max(v) ==
    IF \A i \in 1..8 : v[i] = 0 THEN SubSeq(v, 9, 16) ELSE U64Max

\* A fee taken with a wrapping subtraction and a truncating cast.
fee_mojos_wrapping(removal_amount, addition_amount) ==
    SubSeq(wrapping_sub(removal_amount, addition_amount), 9, 16)

\* Lines 107-111
fee_mojos(removal_amount, addition_amount) ==
    try_into_u64_or_max(saturating_sub(removal_amount, addition_amount))

\* Lines 103-151: the output, given the sorted removals and additions, the
\* spend analyses and the fee.
sorted_output(src, nts, removals, additions, spends, fee) ==
    [ input |-> InputInfo(src, nts),
      result |->
          [ status |-> "ok",
            error |-> None,
            summary |->
                [ removals |-> removals,
                  additions |-> additions,
                  fee_mojos |-> fee,
                  net_xch_delta_by_puzzle_hash |->
                      compute_net_delta(removals, additions) ],
            spends |-> spends ] ]

\* Lines 102-103 and 107-151: the output, given the removals, the spend
\* analyses and the fee.
success_output(src, nts, removals, spends, fee) ==
    sorted_output(src, nts, sort_by_coin_id(removals),
                  sort_by_coin_id(extend_additions(spends, Len(spends))),
                  spends, fee)

build_success_output(src, nts, bundle, owned) ==
    LET spend_count == IF Len(bundle.coin_spends) < Len(owned.spends)
                       THEN Len(bundle.coin_spends) ELSE Len(owned.spends)
    IN  success_output(src, nts,
            [ idx \in 1..spend_count |->
                coin_ref_from_coin(bundle.coin_spends[idx].coin) ],
            [ idx \in 1..spend_count |->
                analyze_single_spend(bundle.coin_spends[idx], owned.spends[idx]) ],
            fee_mojos(owned.removal_amount, owned.addition_amount))

\* Result<InspectionOutput>
Ok(value) == [ ok |-> TRUE, value |-> value ]

\* Lines 42-70; get_conditions_from_spendbundle is the external executor, and
\* `ev` is what it returned.
inspect_bundle(src, bundle, nts, ev) ==
    IF ev.ok
    THEN Ok(build_success_output(src, nts, bundle, ev.conditions))
    ELSE Ok(build_error_output(src, nts, bundle, ev.err))

InspectBundle ==
    /\ bpc = "ready"
    /\ output' = Some(inspect_bundle(source, spend_bundle, notes, eval))
    /\ bpc' = "done"
    /\ UNCHANGED << source, spend_bundle, notes, eval >>
    /\ UNCHANGED << engineVars, featVars, loadVars, helperVars >>

(***************************************************************************)
(* util.rs: the hex helpers.  A string is a sequence of characters.         *)
(***************************************************************************)
Err(message) == [ ok |-> FALSE, err |-> message ]

StartsWith(str, prefix) ==
    Len(str) >= Len(prefix) /\ SubSeq(str, 1, Len(prefix)) = prefix

strip_0x(str) ==
    IF StartsWith(str, << "0", "x" >>) \/ StartsWith(str, << "0", "X" >>)
    THEN SubSeq(str, 3, Len(str))
    ELSE str

\* str::trim: without the leading and the trailing white space.
trim(str) ==
    LET black == { i \in DOMAIN str : str[i] # " " } IN
    IF black = {} THEN << >>
    ELSE SubSeq(str, CHOOSE i \in black : \A j \in black : i <= j,
                     CHOOSE i \in black : \A j \in black : j <= i)

UpperHexDigits == << "A", "B", "C", "D", "E", "F" >>

IsHexDigit(c) ==
    \/ \E i \in DOMAIN HexDigits : HexDigits[i] = c
    \/ \E i \in DOMAIN UpperHexDigits : UpperHexDigits[i] = c

HexDigitValue(c) ==
    IF \E i \in DOMAIN HexDigits : HexDigits[i] = c
    THEN IndexIn(HexDigits, c) - 1
    ELSE IndexIn(UpperHexDigits, c) + 9

\* hex::decode of a string of even length.
hex_decode(raw) ==
    IF \E i \in DOMAIN raw : ~ IsHexDigit(raw[i])
    THEN Err("invalid hex character")
    ELSE Ok([ i \in 1..(Len(raw) \div 2) |->
                16 * HexDigitValue(raw[2 * i - 1]) + HexDigitValue(raw[2 * i]) ])

\* A decoder that leaves out the last digit of an odd number of digits.
decode_raw_truncating(raw) ==
    IF raw = << >> THEN Ok(<< >>)
    ELSE hex_decode(SubSeq(raw, 1, 2 * (Len(raw) \div 2)))

\* decode_hex once the prefix and the white space are gone.
decode_raw(raw) ==
    IF raw = << >> THEN Ok(<< >>)
    ELSE IF Len(raw) % 2 # 0 THEN Err("hex string has odd length")
    ELSE hex_decode(raw)

decode_hex(str) == decode_raw(trim(strip_0x(str)))

\* hex::encode(decode_hex(s)?)
encode_decoded(bytes) ==
    IF bytes.ok THEN Ok(hex_encode(bytes.value)) ELSE bytes

normalize_hex_no_prefix(str) == encode_decoded(decode_hex(str))

(***************************************************************************)
(* input.rs: load_mempool_blob_input.  A serde_json Value is a record       *)
(* with its type: null, number (num), string (str), array (items) or object *)
(* (fields, a function on the keys present).                                *)
(***************************************************************************)
JNull == [ type |-> "null" ]

JNumber(n) == [ type |-> "number", num |-> n ]

JString(str) == [ type |-> "string", str |-> str ]

JArray(items) == [ type |-> "array", items |-> items ]

JObject(fields) == [ type |-> "object", fields |-> fields ]

\* Value::get(key): Some for a key of an object, None otherwise.
get(value, key) ==
    IF value.type = "object" /\ key \in DOMAIN value.fields
    THEN Some(value.fields[key]) ELSE None

\* Value::as_str
as_str(value) ==
    IF value.type = "string" THEN Some(value.str) ELSE None

\* json!(normalize_hex_no_prefix(s)?)
json_string(normalized) ==
    IF normalized.ok THEN Ok(JString(normalized.value)) ELSE normalized

\* The body of the loop of normalize_coin_spend_value for one entry.
normalize_entry(k, v) ==
    IF k \in { "puzzle_reveal", "solution" }
    THEN IF as_str(v) = None THEN Err("must be a hex string")
         ELSE json_string(normalize_hex_no_prefix(as_str(v)[1]))
    ELSE Ok(v)

\* The loop stops at the first entry that fails; the entries of a Map are
\* visited in key order, and only these two keys can fail.
collect_entries(entries) ==
    IF \E k \in DOMAIN entries : ~ entries[k].ok
    THEN IF "puzzle_reveal" \in DOMAIN entries /\ ~ entries["puzzle_reveal"].ok
         THEN entries["puzzle_reveal"]
         ELSE entries["solution"]
    ELSE Ok(JObject([ k \in DOMAIN entries |-> entries[k].value ]))

\* The hex strings of a coin spend entry without their prefix.
normalize_coin_spend_value(value) ==
    IF value.type # "object" THEN Err("coin spend entry must be an object")
    ELSE collect_entries([ k \in DOMAIN value.fields |->
                             normalize_entry(k, value.fields[k]) ])

\* The loop of normalize_coin_spend_array stops at the first item that fails.
collect_items(out) ==
    IF \E i \in DOMAIN out : ~ out[i].ok
    THEN out[CHOOSE i \in DOMAIN out :
                ~ out[i].ok /\ \A j \in DOMAIN out : ~ out[j].ok => i <= j]
    ELSE Ok(JArray([ i \in DOMAIN out |-> out[i].value ]))

normalize_coin_spend_array(value) ==
    IF value.type # "array"
    THEN Err("coin_spends must be an array of coin spend objects")
    ELSE collect_items([ i \in DOMAIN value.items |->
                           normalize_coin_spend_value(value.items[i]) ])

\* obj.insert("coin_spends", normalized_spends)
insert_coin_spends(value, normalized_spends) ==
    IF ~ normalized_spends.ok THEN normalized_spends
    ELSE Ok(JObject([ k \in DOMAIN value.fields |->
                        IF k = "coin_spends" THEN normalized_spends.value
                        ELSE value.fields[k] ]))

normalize_spend_bundle_value(value) ==
    IF value.type # "object" THEN Err("spend bundle JSON must be an object")
    ELSE IF get(value, "coin_spends") = None
    THEN Err("spend bundle is missing coin_spends")
    ELSE insert_coin_spends(value,
                            normalize_coin_spend_array(value.fields["coin_spends"]))

\* The variables of a part of the program that a specification does not run.
EngineIdle ==
    /\ puzzle_reveal_bytes = Undecodable
    /\ solution_bytes = Undecodable
    /\ pc = "idle"
    /\ stop = "none"
    /\ iter = 0
    /\ current_puzzle = << >>
    /\ current_solution = None
    /\ current_hash = None
    /\ solution_decode_error = None
    /\ wrappers = << >>
    /\ candidates = << >>
    /\ solution_layers = << >>
    /\ result = None

FeatIdle ==
    /\ clvm_bytes = Undecodable
    /\ fpc = "idle"
    /\ features = None

BundleIdle ==
    /\ source = "Mempool"
    /\ spend_bundle = [ coin_spends |-> << >> ]
    /\ notes = << >>
    /\ eval = [ ok |-> FALSE, err |-> "" ]
    /\ bpc = "idle"
    /\ output = None

LoadIdle ==
    /\ blob_json = [ valid |-> FALSE ]
    /\ lpc = "idle"
    /\ loaded = None

HelperIdle ==
    /\ helper = "none"
    /\ argument = << >>
    /\ hpc = "idle"
    /\ returned = None

(***************************************************************************)
(* Inputs of inspect_bundle                                                 *)
(***************************************************************************)
MaxSpends == 2      \* coin spends of a bundle

\* Puzzle reveals: bytes that do not decode, the nil atom, and a CAT layer
\* around a standard layer whose program uses an operator.
BundlePuzzles ==
    << [ ok |-> FALSE, tree |-> Atom(<< >>), layers |-> << >> ],
       [ ok |-> TRUE, tree |-> Atom(<< >>), layers |-> << >> ],
       [ ok |-> TRUE,
         tree |-> Pair(Atom(<< 2 >>), Pair(Atom(<< 1 >>), Atom(<< 5 >>))),
         layers |-> << [ mods |-> { "cat_layer" }, h |-> 2, fails |-> {} ],
                       [ mods |-> { "standard_layer" }, h |-> 1, fails |-> {} ] >> ] >>

\* Solutions: bytes that do not decode, and a solution valid at both layers.
BundleSolutions ==
    { [ ok |-> FALSE, tree |-> Atom(<< >>), layers |-> << >> ],
      [ ok |-> TRUE, tree |-> Pair(Atom(<< >>), Atom(<< >>)),
        layers |-> << "ok", "ok" >> ] }

\* A coin spend: a coin locked by the k-th puzzle, that puzzle and a
\* solution.  The coin ids descend as k ascends.
CoinSpends ==
    { [ coin |-> [ parent_coin_info |-> 4 - k, puzzle_hash |-> k, amount |-> k ],
        puzzle_reveal |-> BundlePuzzles[k],
        solution |-> sol ] : k \in DOMAIN BundlePuzzles, sol \in BundleSolutions }

\* The CREATE_COIN lists the executor may report for a spend.
CreateCoinChoices ==
    { << >>,
      << [ puzzle_hash |-> 2, amount |-> 1, hint |-> None ] >>,
      << [ puzzle_hash |-> 2, amount |-> 1, hint |-> Some(7) ],
         [ puzzle_hash |-> 1, amount |-> 1, hint |-> None ] >> }

\* The u128 values n and 2^64 + n, for n below 256.
U128Small(n) == [ i \in 1..16 |-> IF i = 16 THEN n ELSE 0 ]

TwoTo64Plus(n) == [ i \in 1..16 |-> IF i = 8 THEN 1 ELSE IF i = 16 THEN n ELSE 0 ]

U128Max == [ i \in 1..16 |-> 255 ]

\* The removal and addition amounts the executor may report: a positive fee,
\* no fee, more added than removed, a difference of 2^64 - 1 and of 2^64, and
\* the greatest difference.
AmountChoices ==
    { [ removal_amount |-> U128Small(7), addition_amount |-> U128Small(5) ],
      [ removal_amount |-> U128Small(5), addition_amount |-> U128Small(5) ],
      [ removal_amount |-> U128Small(5), addition_amount |-> U128Small(7) ],
      [ removal_amount |-> TwoTo64Plus(4), addition_amount |-> U128Small(5) ],
      [ removal_amount |-> TwoTo64Plus(5), addition_amount |-> U128Small(5) ],
      [ removal_amount |-> U128Max, addition_amount |-> U128Zero ] }

\* The conditions of an accepted bundle: one entry per coin spend, or one
\* fewer, and the two amounts.
OwnedConditions(bundle) ==
    { [ spends |-> [ i \in 1..Len(cc) |->
                      [ coin_id |-> coin_id(bundle.coin_spends[i].coin),
                        create_coin |-> cc[i],
                        execution_cost |-> 5,
                        condition_cost |-> 3 ] ],
        removal_amount |-> am.removal_amount,
        addition_amount |-> am.addition_amount ] :
        cc \in UNION { [ 1..n -> CreateCoinChoices ] :
                         n \in { Len(bundle.coin_spends) - 1,
                                 Len(bundle.coin_spends) } \ { -1 } },
        am \in AmountChoices }

ExecutorErrors == { "DoubleSpend", "CostExceeded" }

SourcesAndNotes ==
    { << "Mempool", << "input contained mempool_item wrapper; using nested payload" >> >>,
      << "Block", << "block input normalized to SpendBundle with default aggregate signature" >> >>,
      << "Coin", << "coin input normalized to single-spend SpendBundle" >> >> }

InitBundle ==
    /\ \E n \in 0..MaxSpends : \E cs \in [ 1..n -> CoinSpends ] :
          /\ spend_bundle = [ coin_spends |-> cs ]
          /\ \/ \E e \in ExecutorErrors : eval = [ ok |-> FALSE, err |-> e ]
             \/ \E c \in OwnedConditions([ coin_spends |-> cs ]) :
                   eval = [ ok |-> TRUE, conditions |-> c ]
    /\ \E sn \in SourcesAndNotes : source = sn[1] /\ notes = sn[2]
    /\ bpc = "ready"
    /\ output = None
    /\ EngineIdle
    /\ FeatIdle
    /\ LoadIdle
    /\ HelperIdle

NextBundle == InspectBundle

SpecBundle == InitBundle /\ [][NextBundle]_vars

(***************************************************************************)
(* input.rs: the parsers behind load_mempool_blob_input.  The serde and    *)
(* Streamable formats of chia_protocol are outside the repository: a coin  *)
(* is an object of three numbers, a program is a hex string in JSON and    *)
(* one byte (a one-byte atom) in the Streamable form, which is the count *)
(* of spends, five bytes per spend and one byte of signature.              *)
(***************************************************************************)
CoinKeys == { "parent_coin_info", "puzzle_hash", "amount" }

IsCoinJson(value) ==
    /\ value.type = "object"
    /\ DOMAIN value.fields = CoinKeys
    /\ \A k \in CoinKeys : value.fields[k].type = "number"

IsCoinSpendJson(value) ==
    /\ value.type = "object"
    /\ { "coin", "puzzle_reveal", "solution" } \subseteq DOMAIN value.fields
    /\ IsCoinJson(value.fields["coin"])
    /\ \A k \in { "puzzle_reveal", "solution" } :
          /\ value.fields[k].type = "string"
          /\ decode_hex(value.fields[k].str).ok

\* serde_json::from_value::<SpendBundle>
from_value(value) ==
    IF /\ value.type = "object"
       /\ { "coin_spends", "aggregated_signature" } \subseteq DOMAIN value.fields
       /\ value.fields["aggregated_signature"].type = "string"
       /\ value.fields["coin_spends"].type = "array"
       /\ \A i \in DOMAIN value.fields["coin_spends"].items :
             IsCoinSpendJson(value.fields["coin_spends"].items[i])
    THEN LET items == value.fields["coin_spends"].items IN
         Ok([ coin_spends |->
                [ i \in DOMAIN items |->
                    [ coin |-> [ k \in CoinKeys |-> items[i].fields["coin"].fields[k].num ],
                      puzzle_reveal |-> decode_hex(items[i].fields["puzzle_reveal"].str).value,
                      solution |-> decode_hex(items[i].fields["solution"].str).value ] ] ])
    ELSE Err("failed to parse spend bundle JSON")

RECURSIVE spends_to_bytes(_)
spends_to_bytes(spends) ==
    IF spends = << >> THEN << >>
    ELSE LET sp == Head(spends) IN
         << sp.coin.parent_coin_info, sp.coin.puzzle_hash, sp.coin.amount >>
            \o sp.puzzle_reveal \o sp.solution \o spends_to_bytes(Tail(spends))

\* Streamable::to_bytes of a bundle of one-byte programs.
to_bytes(bundle) ==
    << Len(bundle.coin_spends) >> \o spends_to_bytes(bundle.coin_spends) \o << 0 >>

\* SpendBundle::from_bytes
from_bytes(bytes) ==
    IF Len(bytes) >= 2 /\ Len(bytes) = 5 * bytes[1] + 2
    THEN Ok([ coin_spends |->
                [ i \in 1..bytes[1] |->
                    [ coin |-> [ parent_coin_info |-> bytes[5 * i - 3],
                                 puzzle_hash |-> bytes[5 * i - 2],
                                 amount |-> bytes[5 * i - 1] ],
                      puzzle_reveal |-> << bytes[5 * i] >>,
                      solution |-> << bytes[5 * i + 1] >> ] ] ])
    ELSE Err("failed to parse spend bundle bytes")

\* from_value of a normalized value, the error of the normalization otherwise.
from_normalized(normalized) ==
    IF normalized.ok THEN from_value(normalized.value) ELSE normalized

parse_spend_bundle_object(value) == from_normalized(normalize_spend_bundle_value(value))

\* from_bytes of the decoded bytes, the error of decode_hex otherwise.
from_decoded(bytes) ==
    IF bytes.ok THEN from_bytes(bytes.value) ELSE bytes

parse_spend_bundle_bytes(hex_value) == from_decoded(decode_hex(hex_value))

WrapperNote == << "input contained mempool_item wrapper; using nested payload" >>

BytesNote == << "input contained spend_bundle_bytes; decoded with streamable parser" >>

\* A loader that reads the top level whatever it holds.
load_scope_top_level(value) == value

\* The scope load_mempool_blob_input reads the bundle from.
load_scope(value) ==
    IF get(value, "mempool_item") # None THEN get(value, "mempool_item")[1] ELSE value

\* Ok((InputSource::Mempool, bundle, notes)), or the error of the parser.
load_result(parsed, nts) ==
    IF parsed.ok
    THEN Ok([ source |-> "Mempool", bundle |-> parsed.value, notes |-> nts ])
    ELSE parsed

\* scope.get("spend_bundle_bytes").and_then(Value::as_str)
spend_bundle_bytes_str(scope) ==
    IF get(scope, "spend_bundle_bytes") = None THEN None
    ELSE as_str(get(scope, "spend_bundle_bytes")[1])

\* Lines 35-46: the bundle of the scope.
load_from_scope(scope, nts) ==
    IF get(scope, "spend_bundle") # None
    THEN load_result(parse_spend_bundle_object(get(scope, "spend_bundle")[1]), nts)
    ELSE IF spend_bundle_bytes_str(scope) # None
    THEN load_result(parse_spend_bundle_bytes(spend_bundle_bytes_str(scope)[1]),
                     nts \o BytesNote)
    ELSE IF get(scope, "coin_spends") # None
    THEN load_result(parse_spend_bundle_object(scope), nts)
    ELSE Err("mempool blob must contain spend_bundle, spend_bundle_bytes, or coin_spends (top-level or inside mempool_item)")

\* load_mempool_blob_input: Ok of the source, the bundle and the notes, or
\* the first error.
load_mempool_blob_input(blob) ==
    IF ~ blob.valid THEN Err("invalid JSON")
    ELSE load_from_scope(load_scope(blob.value),
                         IF get(blob.value, "mempool_item") # None
                         THEN WrapperNote ELSE << >>)

\* One call of load_mempool_blob_input.
LoadMempoolBlob ==
    /\ lpc = "ready"
    /\ loaded' = Some(load_mempool_blob_input(blob_json))
    /\ lpc' = "done"
    /\ UNCHANGED << blob_json, engineVars, featVars, bundleVars, helperVars >>

(***************************************************************************)
(* Inputs of load_mempool_blob_input: invalid JSON, values that are not    *)
(* objects, and objects with each of the keys spend_bundle,                *)
(* spend_bundle_bytes, coin_spends and aggregated_signature absent or      *)
(* present with a good or a bad value, at the top level and inside         *)
(* mempool_item.  The parent of the coin of a good value tells where the   *)
(* value stood: 1, 2, 3 for the three keys at the top level, 4, 5, 6       *)
(* inside mempool_item.                                                    *)
(***************************************************************************)
SampleBundle(tag) ==
    [ coin_spends |->
        << [ coin |-> [ parent_coin_info |-> tag, puzzle_hash |-> 1, amount |-> 1 ],
             puzzle_reveal |-> << 1 >>,
             solution |-> << 128 >> ] >> ]

CoinJson(tag) ==
    JObject([ parent_coin_info |-> JNumber(tag), puzzle_hash |-> JNumber(1),
              amount |-> JNumber(1) ])

CoinSpendJson(tag, puzzle_hex) ==
    JObject([ coin |-> CoinJson(tag),
              puzzle_reveal |-> JString(puzzle_hex),
              solution |-> JString(<< "8", "0" >>) ])

SignatureJson == JString(<< "0", "x", "c", "0" >>)

SbAlts == { "absent", "valid", "bad_hex", "not_object", "unsigned" }

ByAlts == { "absent", "valid", "odd", "not_string", "truncated" }

CsAlts == { "absent", "valid", "not_array" }

SpendBundleValue(alt, tag) ==
    CASE alt = "valid" ->
            JObject([ coin_spends |-> JArray(<< CoinSpendJson(tag, << "0", "x", "0", "1" >>) >>),
                      aggregated_signature |-> SignatureJson ])
      [] alt = "bad_hex" ->
            JObject([ coin_spends |-> JArray(<< CoinSpendJson(tag, << "0", "x", "1" >>) >>),
                      aggregated_signature |-> SignatureJson ])
      [] alt = "unsigned" ->
            JObject([ coin_spends |-> JArray(<< CoinSpendJson(tag, << "0", "1" >>) >>) ])
      [] OTHER -> JString(<< "0", "1" >>)

SpendBundleBytesValue(alt, tag) ==
    LET bytes == to_bytes(SampleBundle(tag)) IN
    CASE alt = "valid" -> JString(<< "0", "X" >> \o hex_encode(bytes))
      [] alt = "odd" -> JString(Tail(hex_encode(bytes)))
      [] alt = "truncated" -> JString(hex_encode(Tail(bytes)))
      [] OTHER -> JNumber(tag)

CoinSpendsValue(alt, tag) ==
    IF alt = "valid" THEN JArray(<< CoinSpendJson(tag, << " ", "0", "1", " " >>) >>)
    ELSE JString(<< "0", "1" >>)

\* The keys of a scope and their values; base is 0 at the top level and 3
\* inside mempool_item.
ScopeFields(sb, by, cs, signed, base) ==
    [ k \in { key \in { "spend_bundle", "spend_bundle_bytes", "coin_spends",
                        "aggregated_signature" } :
                \/ key = "spend_bundle" /\ sb # "absent"
                \/ key = "spend_bundle_bytes" /\ by # "absent"
                \/ key = "coin_spends" /\ cs # "absent"
                \/ key = "aggregated_signature" /\ signed } |->
        CASE k = "spend_bundle" -> SpendBundleValue(sb, base + 1)
          [] k = "spend_bundle_bytes" -> SpendBundleBytesValue(by, base + 2)
          [] k = "coin_spends" -> CoinSpendsValue(cs, base + 3)
          [] OTHER -> SignatureJson ]

\* The fields and one more key.
WithKey(fields, key, value) ==
    [ k \in DOMAIN fields \cup { key } |-> IF k = key THEN value ELSE fields[k] ]

Blob(value) == [ valid |-> TRUE, value |-> value ]

InitLoad ==
    /\ \/ blob_json = [ valid |-> FALSE ]
       \/ blob_json \in { Blob(JNull), Blob(JString(<< "0", "1" >>)), Blob(JArray(<< >>)) }
       \/ \E sb \in SbAlts, by \in ByAlts, cs \in CsAlts, signed \in BOOLEAN :
             LET top == ScopeFields(sb, by, cs, signed, 0) IN
             \/ blob_json = Blob(JObject(top))
             \/ blob_json = Blob(JObject(WithKey(top, "mempool_item", JNull)))
             \/ \E nsb \in SbAlts, nby \in ByAlts, ncs \in CsAlts, nsigned \in BOOLEAN :
                   blob_json = Blob(JObject(WithKey(top, "mempool_item",
                                       JObject(ScopeFields(nsb, nby, ncs, nsigned, 3)))))
    /\ lpc = "ready"
    /\ loaded = None
    /\ EngineIdle
    /\ FeatIdle
    /\ BundleIdle
    /\ HelperIdle

NextLoad == LoadMempoolBlob

SpecLoad == InitLoad /\ [][NextLoad]_vars

(***************************************************************************)
(* Helper functions called on their own                                     *)
(***************************************************************************)
CallAtomToU64 ==
    /\ hpc = "ready"
    /\ helper = "atom_to_u64"
    /\ returned' = Some(atom_to_u64(argument))
    /\ hpc' = "done"
    /\ UNCHANGED << helper, argument, engineVars, featVars, bundleVars, loadVars >>

\* compute_net_delta(&removals, &additions)
CallComputeNetDelta ==
    /\ hpc = "ready"
    /\ helper = "compute_net_delta"
    /\ returned' = Some(compute_net_delta(argument[1], argument[2]))
    /\ hpc' = "done"
    /\ UNCHANGED << helper, argument, engineVars, featVars, bundleVars, loadVars >>

\* encode_hex_prefixed(bytes)
CallEncodeHexPrefixed ==
    /\ hpc = "ready"
    /\ helper = "encode_hex_prefixed"
    /\ returned' = Some(encode_hex_prefixed(argument))
    /\ hpc' = "done"
    /\ UNCHANGED << helper, argument, engineVars, featVars, bundleVars, loadVars >>

\* decode_hex(s)
CallDecodeHex ==
    /\ hpc = "ready"
    /\ helper = "decode_hex"
    /\ returned' = Some(decode_hex(argument))
    /\ hpc' = "done"
    /\ UNCHANGED << helper, argument, engineVars, featVars, bundleVars, loadVars >>

\* normalize_hex_no_prefix(s)
CallNormalizeHexNoPrefix ==
    /\ hpc = "ready"
    /\ helper = "normalize_hex_no_prefix"
    /\ returned' = Some(normalize_hex_no_prefix(argument))
    /\ hpc' = "done"
    /\ UNCHANGED << helper, argument, engineVars, featVars, bundleVars, loadVars >>

MaxAtomLen == 9     \* bytes of an atom given to atom_to_u64

\* Atoms by their first byte, their last byte and the bytes between.
AtomsOfLen(n) ==
    IF n = 0 THEN { << >> }
    ELSE { [ i \in 1..n |-> IF i = 1 THEN first ELSE IF i = n THEN last ELSE fill ] :
             first \in { 0, 1, 127, 128, 255 },
             fill \in { 0, 66, 255 },
             last \in { 0, 128, 255 } }

MaxCoins == 2       \* coins of a list given to compute_net_delta

\* Coins of three puzzle hashes and two amounts.
CoinRefs ==
    { coin_ref_from_coin([ parent_coin_info |-> 1, puzzle_hash |-> h, amount |-> a ]) :
        h \in 1..3, a \in 1..2 }

CoinLists == UNION { [ 1..n -> CoinRefs ] : n \in 0..MaxCoins }

MaxBytes == 2       \* bytes of a string given to encode_hex_prefixed

\* Bytes whose digits are 0, a digit and a letter, in both nibbles.
SampleBytes == { 0, 10, 16, 171, 255 }

ByteStrings == UNION { [ 1..n -> SampleBytes ] : n \in 0..MaxBytes }

MaxChars == 4       \* characters of a string given to decode_hex

\* Digits of both cases, the letters of the prefix, white space and a
\* character that is no digit.
SampleChars == { "0", "1", "a", "F", "x", "X", " ", "g" }

InitHelpers ==
    /\ \/ /\ helper = "atom_to_u64"
          /\ \E n \in 0..MaxAtomLen : argument \in AtomsOfLen(n)
       \/ /\ helper = "encode_hex_prefixed"
          /\ argument \in ByteStrings
       \/ /\ helper \in { "decode_hex", "normalize_hex_no_prefix" }
          /\ \E n \in 0..MaxChars : argument \in [ 1..n -> SampleChars ]
       \/ /\ helper = "compute_net_delta"
          /\ \E removals \in CoinLists :
                \E additions \in CoinLists : argument = << removals, additions >>
    /\ hpc = "ready"
    /\ returned = None
    /\ EngineIdle
    /\ FeatIdle
    /\ BundleIdle
    /\ LoadIdle

NextHelpers ==
    \/ CallAtomToU64
    \/ CallComputeNetDelta
    \/ CallEncodeHexPrefixed
    \/ CallDecodeHex
    \/ CallNormalizeHexNoPrefix

SpecHelpers == InitHelpers /\ [][NextHelpers]_vars

Init ==
    /\ \/ /\ puzzle_reveal_bytes = Undecodable
          /\ solution_bytes \in FreeSolutionBytes
       \/ \E n \in 0..MaxLayers : \E p \in PuzzlesOfLen(n) :
             /\ puzzle_reveal_bytes = Decodable(p)
             /\ solution_bytes \in FreeSolutionBytes
       \/ \E n \in 1..MaxNest, o \in 0..(Len(InnerCatalog) - 1) :
             \E c \in DeepCores(n), s \in DeepSolutionBytes :
                 /\ puzzle_reveal_bytes = Decodable(DeepPuzzle(n, o, c))
                 /\ solution_bytes = s
    /\ pc = "start"
    /\ stop = "none"
    /\ iter = 0
    /\ current_puzzle = << >>
    /\ current_solution = None
    /\ current_hash = None
    /\ solution_decode_error = None
    /\ wrappers = << >>
    /\ candidates = << >>
    /\ solution_layers = << >>
    /\ result = None
    /\ FeatIdle
    /\ BundleIdle
    /\ LoadIdle
    /\ HelperIdle

Next ==
    \/ Decode
    \/ Iterate
    \/ LoopExhausted
    \/ Return

Spec == Init /\ [][Next]_vars

InitFeat ==
    /\ \/ clvm_bytes = Undecodable
       \/ \E b \in InputAtoms : clvm_bytes = Decodable(Atom(b))
       \/ \E n \in 2..MaxLeaves : \E k \in 1..(n - 1) :
             \E l \in TreesWithLeaves(k), r \in TreesWithLeaves(n - k) :
                 clvm_bytes = Decodable(Pair(l, r))
       \/ \E n \in 1..MaxBoundaryLeaves : \E t \in BoundaryTrees(n) :
             clvm_bytes = Decodable(t)
    /\ fpc = "ready"
    /\ features = None
    /\ EngineIdle
    /\ BundleIdle
    /\ LoadIdle
    /\ HelperIdle

NextFeat == Analyze

SpecFeat == InitFeat /\ [][NextFeat]_vars


(***************************************************************************)
(* Properties of the recognition engine (specification Spec)                *)
(***************************************************************************)
Range(seq) == { seq[i] : i \in DOMAIN seq }

IsPrefix(a, b) == Len(a) <= Len(b) /\ SubSeq(b, 1, Len(a)) = a

Returned == result # None

\* The result the stepwise run returns is the one its callers get.
ReturnsCallResult ==
    Returned =>
        result[1] = recognize_puzzle_and_solution(puzzle_reveal_bytes, solution_bytes)

\* The match set of the current puzzle, as the engine would query it.
CurrentMatches == collect_matches(current_puzzle, current_solution)

\* C1: recognition ends within 33 loop steps: the catalog is queried at most
\* 32 times (one query per started iteration), at most 32 wrappers are
\* produced, every step taken in the loop either starts a further iteration
\* or leaves the loop, and after 32 iterations the loop is left without a
\* further query or record even when the current puzzle still matches.
C1_PeelingTermination ==
    /\ [](iter <= 32 /\ Len(wrappers) <= iter /\ Len(wrappers) <= 32)
    /\ [][pc = "loop" => (iter' = iter + 1 \/ pc' = "exit")]_vars
    /\ [][(pc = "loop" /\ iter >= 32) =>
            /\ pc' = "exit"
            /\ iter' = iter
            /\ wrappers' = wrappers
            /\ candidates' = candidates]_vars

C1_Witness ==
    /\ pc = "done"
    /\ stop = "depth_exceeded"
    /\ iter = 32
    /\ Len(result[1].wrappers) = 32
    /\ Len(CurrentMatches) = 1

C3_ParseErrorStops ==
    \A i \in DOMAIN wrappers :
        wrappers[i].parse_error # None => (i = Len(wrappers) /\ pc # "loop")

\* C4: in an iteration with exactly one match that has a next puzzle, either
\* the next puzzle's hash differs from the current puzzle's and the engine
\* moves on to the next puzzle, or the hashes are equal and the loop ends
\* with the cycle outcome; no iteration starts on a puzzle whose hash equals
\* the hash of the puzzle it was peeled from.
C4_MonotonicProgress ==
    /\ [][(/\ pc = "loop"
           /\ iter' # iter
           /\ Len(CurrentMatches) = 1
           /\ CurrentMatches[1].next_puzzle # None) =>
            LET next == CurrentMatches[1].next_puzzle[1] IN
            IF curried_puzzle_hash(next) # curried_puzzle_hash(current_puzzle)
            THEN /\ current_puzzle' = next
                 /\ pc' = "loop"
                 /\ stop' = "none"
            ELSE /\ pc' = "exit"
                 /\ stop' = "cycle"
                 /\ current_puzzle' = current_puzzle]_vars
    /\ []((pc = "loop" /\ current_hash # None) =>
            curried_puzzle_hash(current_puzzle) # current_hash[1])

C4_Witness ==
    /\ pc = "done"
    /\ stop = "cycle"
    /\ Len(wrappers) >= 2
    /\ wrappers[1].inner_puzzle_tree_hash # Some(puzzle_reveal_bytes.tree[1].h)
    /\ wrappers[Len(wrappers)].inner_puzzle_tree_hash = Some(current_hash[1])

\* C5: the candidate of an accepted layer has confidence 1.0 when its
\* solution parsed or none was supplied and 0.8 when the parse failed; a
\* wrapper's parse_error is set exactly when its candidate has 0.8; and a
\* template that accepts the puzzle is in the match set whatever its
\* solution parse gave.
C5_ConfidenceOfAcceptedLayer ==
    /\ \A i \in DOMAIN wrappers :
          /\ candidates[i].name = wrappers[i].name
          /\ solution_layers[i].layer = wrappers[i].name
          /\ solution_layers[i].result \in { "ok", "missing_solution" }
                => candidates[i].confidence = 10
          /\ solution_layers[i].result = "error" => candidates[i].confidence = 8
          /\ candidates[i].confidence \in { 8, 10 }
          /\ wrappers[i].parse_error # None <=> candidates[i].confidence = 8
          /\ wrappers[i].parse_error # None <=> solution_layers[i].result = "error"
    /\ pc = "loop" =>
          \A t \in Templates :
              parse_puzzle(t, current_puzzle)
                <=> (\E m \in Range(CurrentMatches) : m.name = t)

C5_Witness ==
    /\ pc = "done"
    /\ Len(result[1].wrappers) = 2
    /\ result[1].candidates[1].confidence = 10
    /\ result[1].candidates[2].confidence = 8
    /\ solution_layers[1].result = "ok"
    /\ result[1].wrappers[2].parse_error # None

\* C8: in every returned result, recognized holds exactly when wrappers is
\* not empty.
C8_RecognizedIffWrappers ==
    Returned => (result[1].recognized <=> result[1].wrappers # << >>)

C8_Witness ==
    /\ Returned
    /\ stop = "ambiguous"
    /\ ~ result[1].recognized
    /\ result[1].candidates # << >>

NestedKnownLayers(p) ==
    /\ p # << >>
    /\ \A i \in DOMAIN p :
          /\ Cardinality(p[i].mods) = 1
          /\ i < Len(p) => (p[i].mods \subseteq InnerTemplates /\ p[i + 1].h # p[i].h)

\* The solution parses at each of the k levels.
ConsistentSolution(s, k) ==
    /\ s.ok
    /\ Len(s.tree) >= k
    /\ \A i \in 1..k : s.tree[i] = "ok"

\* Exactly k wrappers, outer to inner, each at confidence 1.0.
NestedWrappers ==
    LET p == puzzle_reveal_bytes.tree
        k == Len(p)
    IN  /\ Len(result[1].wrappers) = k
        /\ Len(result[1].candidates) = k
        /\ \A i \in 1..k :
              /\ result[1].wrappers[i].name \in p[i].mods
              /\ result[1].candidates[i].name \in p[i].mods
              /\ result[1].candidates[i].confidence = 10

\* Each layer parsed the solution handed on to it; the royalty transfer
\* layer alone has no solution parser.
NestedSolutions ==
    \A i \in 1..Len(puzzle_reveal_bytes.tree) :
        IF solution_layers[i].layer = "royalty_transfer_layer"
        THEN solution_layers[i].result = "unsupported"
        ELSE solution_layers[i].result = "ok"

Accepting(puzzle) == { t \in Templates : parse_puzzle(t, puzzle) }

\* The solution bytes decode to a tree the outermost layer parses.
ValidSolution == solution_bytes.ok /\ solution_bytes.tree # << >>
                                  /\ solution_bytes.tree[1] = "ok"

\* C11: an iteration whose single matching template is a leaf policy appends
\* exactly that one wrapper and leaves the loop with the no-further-layer
\* outcome; a leaf layer is always the last wrapper; and a puzzle that is one
\* leaf layer with a valid solution gives exactly one wrapper, one candidate
\* at confidence 1.0 and recognized = true.
C11_LeafLayerStops ==
    /\ [][(/\ pc = "loop"
           /\ iter' # iter
           /\ Cardinality(Accepting(current_puzzle)) = 1
           /\ Accepting(current_puzzle) \subseteq LeafTemplates) =>
            /\ Len(wrappers') = Len(wrappers) + 1
            /\ SubSeq(wrappers', 1, Len(wrappers)) = wrappers
            /\ wrappers'[Len(wrappers')].name \in Accepting(current_puzzle)
            /\ wrappers'[Len(wrappers')].inner_puzzle_tree_hash = None
            /\ pc' = "exit"
            /\ stop' = "no_further_layer"]_vars
    /\ [](\A i \in DOMAIN wrappers :
            wrappers[i].name \in LeafTemplates =>
                (i = Len(wrappers) /\ pc # "loop" /\ stop = "no_further_layer"))
    /\ []((/\ Returned
           /\ puzzle_reveal_bytes.ok
           /\ Len(puzzle_reveal_bytes.tree) = 1
           /\ Cardinality(puzzle_reveal_bytes.tree[1].mods) = 1
           /\ puzzle_reveal_bytes.tree[1].mods \subseteq LeafTemplates
           /\ ValidSolution) =>
            /\ Len(result[1].wrappers) = 1
            /\ result[1].wrappers[1].name \in puzzle_reveal_bytes.tree[1].mods
            /\ result[1].candidates =
                   << [ name |-> result[1].wrappers[1].name, confidence |-> 10 ] >>
            /\ result[1].recognized
            /\ stop = "no_further_layer")

C11_Witness ==
    /\ Returned
    /\ stop = "no_further_layer"
    /\ puzzle_reveal_bytes.ok
    /\ Len(puzzle_reveal_bytes.tree) = 1
    /\ ValidSolution
    /\ result[1].recognized
    /\ Len(result[1].wrappers) = 1
    /\ result[1].wrappers[1].name = "standard_layer"
    /\ result[1].candidates[1].confidence = 10

\* C12: an iteration in which no template accepts the current puzzle leaves
\* the loop and adds nothing to wrappers or candidates; a root puzzle that no
\* template accepts gives recognized = false, no wrappers and no candidates.
C12_UnrecognizedAddsNothing ==
    /\ [][(pc = "loop" /\ iter' # iter /\ Accepting(current_puzzle) = {}) =>
            /\ wrappers' = wrappers
            /\ candidates' = candidates
            /\ solution_layers' = solution_layers
            /\ pc' = "exit"
            /\ stop' = "unrecognized"]_vars
    /\ [][stop = "unrecognized" =>
            (wrappers' = wrappers /\ candidates' = candidates)]_vars
    /\ []((/\ Returned
           /\ puzzle_reveal_bytes.ok
           /\ Accepting(puzzle_reveal_bytes.tree) = {}) =>
            /\ ~ result[1].recognized
            /\ result[1].wrappers = << >>
            /\ result[1].candidates = << >>)

\* The empty atom as puzzle and as solution.
C12_Witness ==
    /\ Returned
    /\ stop = "unrecognized"
    /\ puzzle_reveal_bytes = Decodable(<< >>)
    /\ solution_bytes = Decodable(<< >>)
    /\ ~ result[1].recognized
    /\ result[1].wrappers = << >>
    /\ result[1].candidates = << >>
    /\ result[1].parsed_solution = None

\* The terminal outcome as read off a returned result: the last entry of
\* parsed_solution.layers tells an ambiguous stop and a cycle stop, the last
\* wrapper's missing inner hash a leaf, and 32 wrappers the depth bound.
Outcome(r) ==
    LET layers == IF r.parsed_solution = None THEN << >>
                  ELSE r.parsed_solution[1].layers
        status == IF layers # << >> /\ "status" \in DOMAIN layers[Len(layers)]
                  THEN layers[Len(layers)].status ELSE "layer"
        ws == r.wrappers
    IN  IF r.parsed_solution # None
           /\ r.parsed_solution[1].decode_error
                 = Some("failed to decode puzzle_reveal bytes")
        THEN "puzzle_decode_error"
        ELSE IF status = "ambiguous" THEN "ambiguous"
        ELSE IF status = "stopped" THEN "cycle"
        ELSE IF ws # << >> /\ ws[Len(ws)].inner_puzzle_tree_hash = None
        THEN "no_further_layer"
        ELSE IF Len(ws) = 32 THEN "depth_exceeded"
        ELSE "unrecognized"

\* The entries of parsed_solution.layers that record a peeled layer.
LayerEntries(r) ==
    IF r.parsed_solution = None THEN << >>
    ELSE SelectSeq(r.parsed_solution[1].layers, LAMBDA e : "layer" \in DOMAIN e)

\* C13: whichever way the peeling loop ends, a complete result is returned:
\* it holds every wrapper and candidate produced, one solution entry per
\* peeled layer, and the way the loop ended can be read off it.
C13_StopOutcomeInResult ==
    (pc = "done" /\ stop # "puzzle_decode_error") =>
        /\ Returned
        /\ stop \in { "unrecognized", "ambiguous", "cycle", "no_further_layer",
                      "depth_exceeded" }
        /\ DOMAIN result[1]
              = { "recognized", "candidates", "wrappers", "parsed_solution" }
        /\ result[1].wrappers = wrappers
        /\ result[1].candidates = candidates
        /\ Len(wrappers) = (IF stop \in { "unrecognized", "ambiguous" }
                            THEN iter - 1 ELSE iter)
        /\ [ i \in 1..Len(LayerEntries(result[1])) |-> LayerEntries(result[1])[i].layer ]
              = [ i \in 1..Len(wrappers) |-> wrappers[i].name ]
        /\ Outcome(result[1]) = stop

\* 31 layers peeled, then a puzzle no template accepts.
C13_Witness ==
    /\ Returned
    /\ stop = "unrecognized"
    /\ Len(result[1].wrappers) = 31
    /\ Outcome(result[1]) = "unrecognized"

\* The place of a template in the catalog order the claim lists.
CatalogIndex(name) ==
    CHOOSE i \in 1..17 :
        << "cat_layer", "singleton_layer", "did_layer", "nft_state_layer",
           "nft_ownership_layer", "royalty_transfer_layer",
           "augmented_condition_layer", "bulletin_layer",
           "option_contract_layer", "revocation_layer", "p2_singleton_layer",
           "p2_curried_layer", "p2_one_of_many_layer",
           "p2_delegated_conditions_layer", "settlement_layer", "stream_layer",
           "standard_layer" >>[i] = name

\* The names of a sequence of records are in strictly ascending catalog order.
InCatalogOrder(names) ==
    \A i, j \in DOMAIN names :
        i < j => CatalogIndex(names[i]) < CatalogIndex(names[j])

\* C15: the match set the zero/one/many decision is taken on lists the
\* accepting templates in catalog order, each once; the candidates at
\* confidence 0.5 of an ambiguous iteration, and the options of its solution
\* entry, are in that order.
C15_CatalogOrder ==
    /\ pc = "loop" =>
          /\ InCatalogOrder([ i \in 1..Len(CurrentMatches) |-> CurrentMatches[i].name ])
          /\ { CurrentMatches[i].name : i \in 1..Len(CurrentMatches) }
                = Accepting(current_puzzle)
    /\ stop = "ambiguous" =>
          LET low == SelectSeq(candidates, LAMBDA c : c.confidence = 5)
              names == [ i \in 1..Len(low) |-> low[i].name ]
          IN  /\ Len(names) >= 2
              /\ InCatalogOrder(names)
              /\ solution_layers[Len(solution_layers)].options = names
              /\ Returned =>
                    SubSeq(result[1].candidates, Len(wrappers) + 1,
                           Len(result[1].candidates)) = low

C15_Witness ==
    /\ Returned
    /\ stop = "ambiguous"
    /\ [ i \in 1..Len(result[1].candidates) |-> result[1].candidates[i].name ]
         = << "cat_layer", "did_layer", "royalty_transfer_layer", "standard_layer" >>
    /\ \A i \in 1..4 : result[1].candidates[i].confidence = 5

\* Level i of puzzle p is accepted by one template, which wraps an inner
\* puzzle of a different hash: the engine goes on to level i + 1.
Descends(p, i) ==
    /\ Cardinality(p[i].mods) = 1
    /\ p[i].mods \subseteq InnerTemplates
    /\ curried_puzzle_hash(SubSeq(p, i + 1, Len(p))) # p[i].h

\* The layers peeled from puzzle p, as the puzzle alone determines them: the
\* levels up to the first that does not descend, that one included when one
\* template accepts it, and 32 at most.
PeeledFromPuzzle(p) ==
    LET bound == IF Len(p) < 32 THEN Len(p) ELSE 32
        K == { k \in 0..bound :
                 /\ \A i \in 1..k : Cardinality(p[i].mods) = 1
                 /\ \A i \in 1..(k - 1) : Descends(p, i) }
        n == CHOOSE k \in K : \A j \in K : j <= k
    IN  [ i \in 1..n |-> CHOOSE t \in p[i].mods : TRUE ]

\* No solution tree is in hand at the start of the loop: the solution bytes
\* gave none.
NoSolutionSupplied ==
    /\ puzzle_reveal_bytes.ok
    /\ ~ solution_bytes.ok
    /\ pc # "start"

C17_DecodeFailureBeforeEngine ==
    Returned =>
        IF ~ puzzle_reveal_bytes.ok \/ ~ solution_bytes.ok
        THEN /\ iter = 0
             /\ ~ result[1].recognized
             /\ result[1].wrappers = << >>
             /\ result[1].candidates = << >>
             /\ result[1].parsed_solution # None
             /\ result[1].parsed_solution[1].decode_error # None
        ELSE \/ result[1].parsed_solution = None
             \/ result[1].parsed_solution[1].decode_error = None

(***************************************************************************)
(* Properties of the feature extractor (specification SpecFeat)             *)
(***************************************************************************)
\* The positions of a tree: paths of "l" / "r" from the root.
RECURSIVE Paths(_)
Paths(node) ==
    IF IsAtom(node) THEN { << >> }
    ELSE { << >> } \cup { << "l" >> \o q : q \in Paths(node.left) }
                   \cup { << "r" >> \o q : q \in Paths(node.right) }

RECURSIVE NodeAt(_, _)
NodeAt(node, path) ==
    IF path = << >> THEN node
    ELSE IF Head(path) = "l" THEN NodeAt(node.left, Tail(path))
    ELSE NodeAt(node.right, Tail(path))

\* The position lies in the argument subtree of a quote form: some node above
\* it has the quote atom as left child and the path goes right there.
InQuotedData(root, path) ==
    \E k \in 1..Len(path) :
        /\ path[k] = "r"
        /\ LET above == NodeAt(root, SubSeq(path, 1, k - 1)) IN
           IsAtom(above.left) /\ above.left.atom = << 1 >>

AtomPaths(root) == { q \in Paths(root) : IsAtom(NodeAt(root, q)) }

Analyzed == fpc = "done" /\ clvm_bytes.ok

\* The tree is the two-element list (A B), that is (A . (B . ())).
IsList2(t) ==
    /\ ~ IsAtom(t)
    /\ IsAtom(t.left)
    /\ ~ IsAtom(t.right)
    /\ IsAtom(t.right.left)
    /\ t.right.right = Atom(<< >>)

\* C6 (as claimed): for the list (A B) with A a known operator atom, A is in
\* operators_used and B, an argument, adds nothing to it.
C6_OperatorPosition ==
    (Analyzed /\ IsList2(clvm_bytes.tree)
              /\ clvm_bytes.tree.left.atom \in DOMAIN keywords)
      => features[1].operators_used = << keywords[clvm_bytes.tree.left.atom] >>

\* C7: an atom in the argument subtree of a quote form is data: every name
\* in operators_used and every path in env_paths_used comes from an atom
\* outside quoted data, while every 32-byte atom and every 48-byte atom of
\* the tree, quoted or not, is in its constant bucket.
C7_QuotedDataIsData ==
    Analyzed =>
      LET root == clvm_bytes.tree
          unquoted == { q \in AtomPaths(root) : ~ InQuotedData(root, q) }
          bytesAt(q) == NodeAt(root, q).atom
      IN  /\ \A op \in Range(features[1].operators_used) :
                \E q \in unquoted :
                    bytesAt(q) \in DOMAIN keywords /\ keywords[bytesAt(q)] = op
          /\ \A e \in Range(features[1].env_paths_used) :
                \E q \in unquoted :
                    /\ atom_to_u64(bytesAt(q)) # None
                    /\ AsU32(atom_to_u64(bytesAt(q))[1]) = e
          /\ \A q \in AtomPaths(root) :
                /\ Len(bytesAt(q)) = 32 =>
                      encode_hex_prefixed(bytesAt(q))
                        \in Range(features[1].constants.bytes32)
                /\ Len(bytesAt(q)) = 48 =>
                      encode_hex_prefixed(bytesAt(q))
                        \in Range(features[1].constants.g1_pubkeys)

\* (q . (a . <32 bytes>)): an operator encoding and a 32-byte atom, both quoted.
C7_Witness ==
    /\ Analyzed
    /\ clvm_bytes.tree = Pair(Atom(<< 1 >>), Pair(Atom(<< 2 >>), Atom(Bytes32)))
    /\ features[1].operators_used = << "q" >>
    /\ features[1].env_paths_used = << >>
    /\ features[1].constants.bytes32 = << encode_hex_prefixed(Bytes32) >>

NoDuplicates(seq) ==
    \A i, j \in DOMAIN seq : i # j => seq[i] # seq[j]

\* C20: each collection of the static features is free of duplicates and
\* ascending in the order of its element type, whatever the tree and in
\* whatever order its atoms are met: operators_used and the two buckets of
\* hex strings as strings, env_paths_used and small_ints as numbers.
C20_CollectionsCanonical ==
    Analyzed =>
      LET f == features[1] IN
      /\ NoDuplicates(f.operators_used)
      /\ NoDuplicates(f.env_paths_used)
      /\ NoDuplicates(f.constants.bytes32)
      /\ NoDuplicates(f.constants.g1_pubkeys)
      /\ NoDuplicates(f.constants.small_ints)
      /\ \A i \in 1..(Len(f.operators_used) - 1) :
            NameLess(f.operators_used[i], f.operators_used[i + 1])
      /\ \A i \in 1..(Len(f.env_paths_used) - 1) :
            BytesLess(f.env_paths_used[i], f.env_paths_used[i + 1])
      /\ \A i \in 1..(Len(f.constants.bytes32) - 1) :
            StringLess(f.constants.bytes32[i], f.constants.bytes32[i + 1])
      /\ \A i \in 1..(Len(f.constants.g1_pubkeys) - 1) :
            StringLess(f.constants.g1_pubkeys[i], f.constants.g1_pubkeys[i + 1])
      /\ \A i \in 1..(Len(f.constants.small_ints) - 1) :
            f.constants.small_ints[i] < f.constants.small_ints[i + 1]

\* ((<high 32 bytes> . <low 32 bytes>) . (2 . 2)): the greater constant is
\* met first and the atom 2 twice.
C20_Witness ==
    /\ Analyzed
    /\ clvm_bytes.tree = Pair(Pair(Atom(Bytes32), Atom(LowBytes32)),
                              Pair(Atom(<< 2 >>), Atom(<< 2 >>)))
    /\ features[1].constants.bytes32
          = << encode_hex_prefixed(LowBytes32), encode_hex_prefixed(Bytes32) >>
    /\ features[1].constants.small_ints = << 2 >>
    /\ features[1].operators_used = << "a" >>

\* The position is the left child of a pair.
InOperatorPosition(path) == path # << >> /\ path[Len(path)] = "l"

\* The u64 is at most 1_000_000 = 0x0F4240.
AtMostMillion(v) ==
    /\ \A i \in 1..5 : v[i] = 0
    /\ v[6] * 65536 + v[7] * 256 + v[8] <= 1000000

\* The u64 lies in 1..2^32-1.
InPathRange(v) ==
    /\ \A i \in 1..4 : v[i] = 0
    /\ \E i \in 5..8 : v[i] # 0

\* C21: the small integers of the features are exactly the values up to
\* 1,000,000 of the atoms that read as an unsigned integer, wherever the atom
\* stands; env_paths_used holds exactly the values in 1..2^32-1 of such atoms
\* that are neither in quoted data nor in operator position (so never 0);
\* an atom that does not read as an integer adds to neither.
C21_IntegerBuckets ==
    Analyzed =>
      LET root == clvm_bytes.tree
          ints == { q \in AtomPaths(root) : atom_to_u64(NodeAt(root, q).atom) # None }
          val(q) == atom_to_u64(NodeAt(root, q).atom)[1]
      IN  /\ Range(features[1].constants.small_ints)
                = { U64ToInt(val(q)) : q \in { p \in ints : AtMostMillion(val(p)) } }
          /\ Range(features[1].env_paths_used)
                = { AsU32(val(q)) :
                      q \in { p \in ints : /\ ~ InQuotedData(root, p)
                                           /\ ~ InOperatorPosition(p)
                                           /\ InPathRange(val(p)) } }

\* (0x80 . (1000000 . ())): the atom 0x80 is no integer, 1,000,000 stands in
\* operator position and is a small integer, and the empty atom, an argument
\* outside quoted data, is the small integer 0 and no path.
C21_Witness ==
    /\ Analyzed
    /\ clvm_bytes.tree = Pair(Atom(<< 128 >>), Pair(Atom(MillionAtom), Atom(<< >>)))
    /\ features[1].constants.small_ints = << 0, 1000000 >>
    /\ features[1].env_paths_used = << >>

(***************************************************************************)
(* Properties of inspect_bundle (specification SpecBundle)                  *)
(***************************************************************************)
\* C18: inspect_bundle returns a report for every bundle, whatever the
\* executor says; when the executor rejects the bundle the report has
\* status "failed" and the executor's message, one spend entry per coin
\* spend in input order, each with the static features of its puzzle
\* reveal, the recognition of its puzzle and solution, evaluation status
\* "failed" and cost 0, one removal per coin spend, no additions and fee 0.
C18_BundleAlwaysReported ==
    bpc = "done" =>
        /\ output # None
        /\ output[1].ok
        /\ output[1].value.result.status = (IF eval.ok THEN "ok" ELSE "failed")
        /\ ~ eval.ok =>
              LET r == output[1].value.result
                  cs == spend_bundle.coin_spends
              IN  /\ r.error # None
                  /\ r.error[1].message = eval.err
                  /\ Len(r.spends) = Len(cs)
                  /\ \A i \in DOMAIN cs :
                        /\ r.spends[i].coin_spend.coin.coin_id = coin_id(cs[i].coin)
                        /\ r.spends[i].coin_spend.puzzle_reveal = cs[i].puzzle_reveal
                        /\ r.spends[i].coin_spend.solution = cs[i].solution
                        /\ r.spends[i].puzzle_behavior.static_features
                              = analyze_clvm_bytes(AsClvm(cs[i].puzzle_reveal))
                        /\ r.spends[i].puzzle.recognition
                              = recognize_puzzle_and_solution(
                                    AsDriver(cs[i].puzzle_reveal), AsDriver(cs[i].solution))
                        /\ r.spends[i].evaluation.status = "failed"
                        /\ r.spends[i].evaluation.cost = 0
                        /\ r.spends[i].evaluation.failure # None
                        /\ r.spends[i].evaluation.failure[1].message = eval.err
                  /\ Len(r.summary.removals) = Len(cs)
                  /\ \A i \in DOMAIN cs :
                        r.summary.removals[i].coin_id = coin_id(cs[i].coin)
                  /\ r.summary.additions = << >>
                  /\ r.summary.fee_mojos = U64Zero

\* A rejected bundle of two spends: the first puzzle does not decode, the
\* second is a CAT around a standard layer with a valid solution.
C18_Witness ==
    /\ bpc = "done"
    /\ ~ eval.ok
    /\ Len(spend_bundle.coin_spends) = 2
    /\ LET r == output[1].value.result IN
       /\ r.status = "failed"
       /\ Len(r.spends) = 2
       /\ ~ r.spends[1].puzzle.recognition.recognized
       /\ r.spends[1].puzzle.recognition.parsed_solution[1].decode_error # None
       /\ r.spends[1].puzzle_behavior.static_features.operators_used = << >>
       /\ r.spends[2].puzzle.recognition.recognized
       /\ Len(r.spends[2].puzzle.recognition.wrappers) = 2
       /\ r.spends[2].puzzle.recognition.candidates[2].confidence = 10
       /\ r.spends[2].puzzle_behavior.static_features.operators_used = << "a", "q" >>
       /\ r.summary.removals[1].coin_id > r.summary.removals[2].coin_id


(***************************************************************************)
(* Properties of load_mempool_blob_input (specification SpecLoad)          *)
(***************************************************************************)
Loaded == lpc = "done"

\* The blob holds an object with the key mempool_item.
Wrapped ==
    /\ blob_json.valid
    /\ blob_json.value.type = "object"
    /\ "mempool_item" \in DOMAIN blob_json.value.fields

\* The value the bundle has to come from.
ConsultedScope ==
    IF Wrapped THEN blob_json.value.fields["mempool_item"] ELSE blob_json.value

InScope(key) ==
    /\ blob_json.valid
    /\ ConsultedScope.type = "object"
    /\ key \in DOMAIN ConsultedScope.fields

\* The rank of the key the bundle has to come from: 1 for spend_bundle, 2
\* for spend_bundle_bytes holding a string, 3 for coin_spends, 0 for none.
PreferredKey ==
    IF InScope("spend_bundle") THEN 1
    ELSE IF InScope("spend_bundle_bytes")
            /\ ConsultedScope.fields["spend_bundle_bytes"].type = "string" THEN 2
    ELSE IF InScope("coin_spends") THEN 3
    ELSE 0

\* The parent of the sample coin that stands at the preferred key.
PreferredTag == (IF Wrapped THEN 3 ELSE 0) + PreferredKey

\* The value at the preferred key is a well-formed bundle.
PreferredIsWellFormed ==
    \/ /\ PreferredKey = 1
       /\ ConsultedScope.fields["spend_bundle"] = SpendBundleValue("valid", PreferredTag)
    \/ /\ PreferredKey = 2
       /\ ConsultedScope.fields["spend_bundle_bytes"]
             = SpendBundleBytesValue("valid", PreferredTag)
    \/ /\ PreferredKey = 3
       /\ ConsultedScope.fields["coin_spends"] = CoinSpendsValue("valid", PreferredTag)
       /\ InScope("aggregated_signature")

\* C19: load_mempool_blob_input takes the bundle from spend_bundle, else from
\* spend_bundle_bytes (a hex string), else from coin_spends, of the object at
\* mempool_item when the blob has that key and of the top level otherwise: a
\* well-formed value at the preferred key is accepted, every bundle returned
\* is the one at the preferred key of the consulted scope, the wrapper note
\* is recorded exactly when mempool_item is present, the source kind is
\* "mempool_item", and a scope with none of the three keys gives an error
\* without a bundle.
C19_MempoolBlobPrecedence ==
    Loaded =>
        LET r == loaded[1] IN
        /\ PreferredIsWellFormed => r.ok
        /\ r.ok =>
              /\ PreferredKey # 0
              /\ r.value.bundle = SampleBundle(PreferredTag)
              /\ kind(r.value.source) = "mempool_item"
              /\ Wrapped <=> (r.value.notes # << >> /\ r.value.notes[1] = WrapperNote[1])
        /\ PreferredKey = 0 => (~ r.ok /\ "value" \notin DOMAIN r)

\* The bundle of spend_bundle_bytes inside mempool_item is returned although
\* the top level holds a well-formed spend_bundle and the nested scope a
\* well-formed coin_spends.
C19_Witness ==
    /\ Loaded
    /\ Wrapped
    /\ "spend_bundle" \in DOMAIN blob_json.value.fields
    /\ blob_json.value.fields["spend_bundle"] = SpendBundleValue("valid", 1)
    /\ PreferredKey = 2
    /\ InScope("coin_spends")
    /\ ConsultedScope.fields["coin_spends"] = CoinSpendsValue("valid", 6)
    /\ loaded[1].ok
    /\ loaded[1].value.bundle = SampleBundle(5)
    /\ loaded[1].value.notes = WrapperNote \o BytesNote


(***************************************************************************)
(* Further properties of the recognition engine (specification Spec)       *)
(***************************************************************************)
\* The templates whose parser returns a layer for the puzzle, and those whose
\* parser returns an error.
Succeeding(puzzle) ==
    IF puzzle = << >> THEN {} ELSE Head(puzzle).mods \ Head(puzzle).fails

Failing(puzzle) ==
    IF puzzle = << >> THEN {} ELSE Head(puzzle).fails

\* C23: in every iteration the matches are exactly the templates whose puzzle
\* parser returned a layer, one match each, whatever other templates do: a
\* parser that fails with an error adds nothing and stops nothing, and the
\* run of a puzzle on which some parser fails returns a result that is
\* recognized iff exactly one template parsed the root puzzle.
C23_FailingParserSkipped ==
    /\ pc = "loop" =>
          /\ { CurrentMatches[i].name : i \in DOMAIN CurrentMatches }
                = Succeeding(current_puzzle)
          /\ Len(CurrentMatches) = Cardinality(Succeeding(current_puzzle))
    /\ (Returned /\ puzzle_reveal_bytes.ok /\ Failing(puzzle_reveal_bytes.tree) # {}) =>
          (result[1].recognized
              <=> Cardinality(Succeeding(puzzle_reveal_bytes.tree)) = 1)

\* The singleton parser fails on a CAT puzzle, which is recognized as CAT.
C23_Witness ==
    /\ Returned
    /\ puzzle_reveal_bytes.tree
          = << [ mods |-> { "cat_layer" }, h |-> 1, fails |-> { "singleton_layer" } ] >>
    /\ result[1].recognized
    /\ Len(result[1].wrappers) = 1
    /\ result[1].wrappers[1].name = "cat_layer"
    /\ Len(result[1].candidates) = 1

\* C24: the wrapper record pushed for a match carries an inner puzzle hash
\* iff the match declared a next puzzle; every wrapper but the last carries
\* one, and in a returned result the last wrapper lacks one exactly when the
\* run stopped at a layer without a further layer.
C24_InnerHashIffNextPuzzle ==
    /\ [][(pc = "loop" /\ Len(wrappers') = Len(wrappers) + 1) =>
            /\ Len(CurrentMatches) = 1
            /\ (wrappers'[Len(wrappers')].inner_puzzle_tree_hash # None)
                  <=> (CurrentMatches[1].next_puzzle # None)]_vars
    /\ [](\A i \in 1..(Len(wrappers) - 1) : wrappers[i].inner_puzzle_tree_hash # None)
    /\ []((Returned /\ result[1].wrappers # << >>) =>
            LET ws == result[1].wrappers IN
            (ws[Len(ws)].inner_puzzle_tree_hash = None) <=> (stop = "no_further_layer"))

\* CAT over a standard layer: the CAT wrapper carries the hash of the
\* standard puzzle, the standard wrapper, the last, carries none.
C24_Witness ==
    /\ Returned
    /\ stop = "no_further_layer"
    /\ Len(result[1].wrappers) = 2
    /\ result[1].wrappers[1].name = "cat_layer"
    /\ result[1].wrappers[1].inner_puzzle_tree_hash
          = Some(curried_puzzle_hash(Tail(puzzle_reveal_bytes.tree)))
    /\ result[1].wrappers[2].name = "standard_layer"
    /\ result[1].wrappers[2].inner_puzzle_tree_hash = None

\* The entry of solution_layers that the iteration just taken pushed for its
\* one match, and the wrapper and the candidate pushed with it.
PushedWrapper == wrappers'[Len(wrappers')]

PushedCandidate == candidates'[Len(candidates')]

PushedLayer == solution_layers'[Len(solution_layers) + 1]

AcceptsOne == pc = "loop" /\ Len(wrappers') = Len(wrappers) + 1

\* A solution that is absent stays absent, and a layer accepted with a parse
\* error or without an inner solution leaves it absent.
SolutionStaysAbsent ==
    /\ [][(pc # "start" /\ current_solution = None) => current_solution' = None]_vars
    /\ [][(AcceptsOne /\ PushedWrapper.parse_error # None)
             => current_solution' = None]_vars
    /\ [](Cardinality({ i \in DOMAIN wrappers : wrappers[i].parse_error # None }) <= 1)

C26_CandidatesShape ==
    Returned =>
        LET ws == result[1].wrappers
            cs == result[1].candidates
            extra == Len(cs) - Len(ws)
            ls == IF result[1].parsed_solution = None THEN << >>
                  ELSE result[1].parsed_solution[1].layers
        IN  /\ extra >= 0
            /\ \A i \in DOMAIN ws :
                  /\ cs[i].name = ws[i].name
                  /\ cs[i].confidence \in { 8, 10 }
            /\ extra # 0 =>
                  /\ extra >= 2
                  /\ \A i \in (Len(ws) + 1)..Len(cs) : cs[i].confidence = 5
                  /\ stop = "ambiguous"
                  /\ ls # << >>
                  /\ ls[Len(ls)].status = "ambiguous"
                  /\ ls[Len(ls)].options
                        = [ i \in 1..extra |-> cs[Len(ws) + i].name ]
                  /\ \A i \in 1..(Len(ls) - 1) : "status" \notin DOMAIN ls[i]
            /\ \A i, j \in DOMAIN cs :
                  (i < j /\ cs[i].confidence = 5) => cs[j].confidence = 5

\* A CAT layer around a puzzle that both the CAT and the DID template accept.
C26_Witness ==
    /\ Returned
    /\ Len(result[1].wrappers) = 1
    /\ result[1].candidates
          = << [ name |-> "cat_layer", confidence |-> 10 ],
               [ name |-> "cat_layer", confidence |-> 5 ],
               [ name |-> "did_layer", confidence |-> 5 ] >>

\* C27: when the puzzle decodes, the layers of parsed_solution are one entry
\* per wrapper, in the order of the wrappers, followed by one "ambiguous"
\* entry iff the run stopped on ambiguity, or by one "stopped" entry iff it
\* stopped on a next puzzle with the hash of the current one; parsed_solution
\* is absent exactly when the puzzle decoded, the solution decoded and no
\* template accepted the root puzzle.
C27_TraceMirrorsRun ==
    (Returned /\ puzzle_reveal_bytes.ok) =>
        LET ws == result[1].wrappers
            n == Len(ws)
            ls == IF result[1].parsed_solution = None THEN << >>
                  ELSE result[1].parsed_solution[1].layers
            trailing(status) == /\ Len(ls) = n + 1
                                /\ "status" \in DOMAIN ls[n + 1]
                                /\ ls[n + 1].status = status
        IN  /\ Len(ls) \in { n, n + 1 }
            /\ \A i \in 1..n : "layer" \in DOMAIN ls[i] /\ ls[i].layer = ws[i].name
            /\ Len(ls) = n + 1 => (trailing("ambiguous") \/ trailing("stopped"))
            /\ trailing("ambiguous") <=> stop = "ambiguous"
            /\ trailing("stopped") <=> stop = "cycle"
            /\ stop = "cycle" => n >= 1
            /\ (result[1].parsed_solution = None)
                  <=> (solution_bytes.ok /\ Succeeding(puzzle_reveal_bytes.tree) = {})

\* A CAT layer whose inner puzzle has the hash of the CAT puzzle: the entry
\* of the CAT layer, then the "stopped" entry.
C27_Witness ==
    /\ Returned
    /\ stop = "cycle"
    /\ Len(result[1].wrappers) = 1
    /\ result[1].wrappers[1].name = "cat_layer"
    /\ Len(result[1].parsed_solution[1].layers) = 2
    /\ result[1].parsed_solution[1].layers[1].layer = "cat_layer"
    /\ result[1].parsed_solution[1].layers[2].status = "stopped"

(***************************************************************************)
(* Properties of the helper functions (specification SpecHelpers)          *)
(***************************************************************************)
Called(name) == hpc = "done" /\ helper = name

\* The big-endian unsigned value of at most eight bytes, as a u64.
BigEndian(bytes) ==
    [ i \in 1..8 |->
        IF i <= 8 - Len(bytes) THEN 0 ELSE bytes[i - (8 - Len(bytes))] ]

\* C22: atom_to_u64 returns 0 for the empty atom, None for an atom whose
\* first byte has the high bit set and for an atom of more than 8 bytes, and
\* otherwise the big-endian unsigned value of the bytes, leading zero bytes
\* included; no byte is shifted out of the 64 bits, and every value returned
\* is below 2^63.
C22_AtomToU64 ==
    Called("atom_to_u64") =>
        LET atom == argument
            r == returned[1]
        IN  /\ atom = << >> => r = Some(U64Zero)
            /\ (atom # << >> /\ (atom[1] >= 128 \/ Len(atom) > 8)) => r = None
            /\ (atom # << >> /\ atom[1] < 128 /\ Len(atom) <= 8)
                  => r = Some(BigEndian(atom))
            /\ r # None => r[1][1] < 128

\* 00 80 reads as 128.
C22_Witness ==
    /\ Called("atom_to_u64")
    /\ argument = << 0, 128 >>
    /\ returned[1] = Some(<< 0, 0, 0, 0, 0, 0, 0, 128 >>)


RECURSIVE SumSeq(_)
SumSeq(seq) == IF seq = << >> THEN 0 ELSE Head(seq) + SumSeq(Tail(seq))

\* Total amount of the coins of a list locked by the puzzle hash h.
AmountOf(coins, h) ==
    SumSeq([ i \in DOMAIN coins |->
               IF coins[i].puzzle_hash = h THEN coins[i].amount ELSE 0 ])

TotalAmount(coins) == SumSeq([ i \in DOMAIN coins |-> coins[i].amount ])

\* The lists holding the elements of seq in every order.
Orders(seq) ==
    { [ i \in DOMAIN seq |-> seq[f[i]] ] : f \in Permutations(DOMAIN seq) }

\* C29: compute_net_delta returns one entry per puzzle hash of the removals
\* and additions, entries of delta 0 included, in ascending order of puzzle
\* hash, each delta being the amount added to that hash minus the amount
\* removed from it; the deltas add up to the additions minus the removals,
\* and the same lists in any other order give the same result.
C29_NetDelta ==
    Called("compute_net_delta") =>
        LET removals == argument[1]
            additions == argument[2]
            deltas == returned[1]
        IN  /\ { deltas[i].puzzle_hash : i \in DOMAIN deltas }
                 = { c.puzzle_hash : c \in Range(removals) \cup Range(additions) }
            /\ \A i, j \in DOMAIN deltas :
                  i < j => deltas[i].puzzle_hash < deltas[j].puzzle_hash
            /\ \A i \in DOMAIN deltas :
                  deltas[i].delta_mojos
                      = AmountOf(additions, deltas[i].puzzle_hash)
                          - AmountOf(removals, deltas[i].puzzle_hash)
            /\ SumSeq([ i \in DOMAIN deltas |-> deltas[i].delta_mojos ])
                  = TotalAmount(additions) - TotalAmount(removals)
            /\ \A r \in Orders(removals) :
                  \A a \in Orders(additions) : compute_net_delta(r, a) = deltas

\* One coin removed from puzzle hash 1 and one of the same amount added to
\* it, after a coin of amount 2 added to puzzle hash 2: the entry of hash 1
\* is kept with delta 0 and comes first.
C29_Witness ==
    /\ Called("compute_net_delta")
    /\ Len(argument[1]) = 1
    /\ Len(argument[2]) = 2
    /\ argument[2][1].puzzle_hash = 2
    /\ returned[1] = << [ puzzle_hash |-> 1, delta_mojos |-> 0 ],
                        [ puzzle_hash |-> 2, delta_mojos |-> 2 ] >>

\* A string of hex digits of either case.
AllHexDigits(str) ==
    \A i \in DOMAIN str : str[i] \in { "0", "1", "2", "3", "4", "5", "6", "7", "8", "9",
                                       "a", "b", "c", "d", "e", "f",
                                       "A", "B", "C", "D", "E", "F" }

LowerCase(c) ==
    CASE c = "A" -> "a" [] c = "B" -> "b" [] c = "C" -> "c"
      [] c = "D" -> "d" [] c = "E" -> "e" [] c = "F" -> "f"
      [] OTHER -> c

HasHexPrefix(str) ==
    Len(str) >= 2 /\ str[1] = "0" /\ str[2] \in { "x", "X" }

\* The digits of a string that is hex digits after an optional prefix.
DigitsOf(str) ==
    IF HasHexPrefix(str) THEN SubSeq(str, 3, Len(str)) ELSE str

\* C30: encode_hex_prefixed gives 0x and two lowercase hex digits per byte,
\* which decode_hex turns back into the bytes; decode_hex of hex digits after
\* an optional 0x or 0X gives the bytes of an even number of digits, the
\* empty byte string when there is none, and an error for an odd number;
\* normalize_hex_no_prefix of its own result is that result.
C30_HexHelpers ==
    /\ Called("encode_hex_prefixed") =>
          /\ Len(returned[1]) = 2 + 2 * Len(argument)
          /\ SubSeq(returned[1], 1, 2) = << "0", "x" >>
          /\ \A i \in 3..Len(returned[1]) :
                returned[1][i] \in { "0", "1", "2", "3", "4", "5", "6", "7", "8", "9",
                                     "a", "b", "c", "d", "e", "f" }
          /\ decode_hex(returned[1]) = Ok(argument)
    /\ Called("decode_hex") /\ AllHexDigits(DigitsOf(argument)) =>
          IF Len(DigitsOf(argument)) % 2 = 1 THEN ~ returned[1].ok
          ELSE /\ returned[1].ok
               /\ 2 * Len(returned[1].value) = Len(DigitsOf(argument))
               /\ hex_encode(returned[1].value)
                     = [ i \in DOMAIN DigitsOf(argument) |->
                           LowerCase(DigitsOf(argument)[i]) ]
    /\ Called("decode_hex") /\ argument = << >> => returned[1] = Ok(<< >>)
    /\ Called("normalize_hex_no_prefix") /\ returned[1].ok =>
          normalize_hex_no_prefix(returned[1].value) = returned[1]

\* 0X and one digit: an error.
C30_Witness ==
    /\ Called("decode_hex")
    /\ argument = << "0", "X", "F" >>
    /\ ~ returned[1].ok

(***************************************************************************)
(* Further properties of inspect_bundle (specification SpecBundle)         *)
(***************************************************************************)
Inspected == bpc = "done" /\ eval.ok

\* a + b + carry on bytes, most significant first; a carry out of the first
\* byte is dropped.
RECURSIVE AddWithCarry(_, _, _)
AddWithCarry(a, b, carry) ==
    IF a = << >> THEN << >>
    ELSE LET n == Len(a)
             sum == a[n] + b[n] + carry
         IN  AddWithCarry(SubSeq(a, 1, n - 1), SubSeq(b, 1, n - 1), sum \div 256)
                \o << sum % 256 >>

\* C28: in a successful inspection addition_amount + fee_mojos is
\* removal_amount when removals are at least additions and the difference
\* is below 2^64; fee_mojos is 0 when additions exceed removals, and 2^64-1
\* when the difference is 2^64 or more.
C28_FeeSaturates ==
    Inspected =>
        LET removal == eval.conditions.removal_amount
            addition == eval.conditions.addition_amount
            fee == output[1].value.result.summary.fee_mojos
            plus64 == AddWithCarry(addition, TwoTo64Plus(0), 0)
        IN  IF BytesLess(removal, addition) THEN fee = U64Zero
            ELSE IF BytesLess(addition, plus64) /\ ~ BytesLess(removal, plus64)
            THEN fee = U64Max
            ELSE AddWithCarry(addition, U64Zero \o fee, 0) = removal

\* 5 removed and 7 added: the fee is 0.
C28_Witness ==
    /\ Inspected
    /\ eval.conditions.removal_amount = U128Small(5)
    /\ eval.conditions.addition_amount = U128Small(7)
    /\ output[1].value.result.summary.fee_mojos = U64Zero

=============================================================================
